---- MODULE Spec2Model ----
(***************************************************************************)
(* Model of the article aggregation and ranking pipeline of the news       *)
(* research assistant: processing.run_full_pipeline,                       *)
(* processing.rank_articles_by_credibility and the api_clients functions   *)
(* they call.                                                              *)
(*                                                                         *)
(* Python values are modelled as follows.                                  *)
(*   - a str is a tuple of one-character strings, so that replace, strip,  *)
(*     isdigit and float() are computed character by character;            *)
(*   - an optional value (None or x) is Null or Some(x);                   *)
(*   - a float is a record: finite (value in tenths), nan, or infinite.    *)
(***************************************************************************)
EXTENDS Integers, Sequences, FiniteSets, TLC

(* ------------------------------ bounds -------------------------------- *)

\* longest candidate list returned by the news search
MaxCandidates == 5

\* last position of a list at which a source name may repeat an earlier one
MaxRepeatPos == 2

\* longest list given to rank_articles_by_credibility over the full label set
MaxRankLen == 3

\* longest list given to rank_articles_by_credibility over TieLabels
MaxTieLen == 7

\* longest reply, in lines, given to generate_followup_questions
MaxReplyLines == 3

\* most chat messages handled between two clicks of "New Search"
MaxChatTurns == 1

(* ------------------------- program constants -------------------------- *)

HeadlineCap_OffByOne == 4 + 1

\* len(processed_articles) < 4
HeadlineCap == 4

\* fetch_top_news(query, SERP_API_KEY, num_results=15)
NumResults == 15

\* generate_followup_questions(combined_summary, n_questions=5, ...)
NQuestions == 5

NoArticlesFound == "No articles found."

CouldNotProcess == "Could not process any of the fetched articles."

NoNewsResults == "No news_results found."

UnknownSource == "Unknown Source"

VARIABLES
    pc,                  \* where run_full_pipeline is: "start", "loop", "done"
    articles,            \* the candidates returned by fetch_top_news
    error,               \* the error returned by fetch_top_news
    idx,                 \* position in articles of the next candidate
    processed_articles,  \* the headline set
    perspectives,        \* the perspective pool
    processed_sources,   \* source names that produced an outcome
    calls,               \* the calls made so far, in order, with their results
    persp_input,         \* what was passed to extract_perspectives_from_articles
    result,              \* the value returned by run_full_pipeline
    rankIn,              \* argument of a direct call of rank_articles_by_credibility
    rankOut,             \* its return value
    apiIn,               \* function and arguments of a direct call of an api client
    apiOut,              \* its return value
    session,             \* st.session_state of the application
    lastEvent            \* the last user event handled by the application, with the pipeline run it made

vars == <<pc, articles, error, idx, processed_articles, perspectives,
          processed_sources, calls, persp_input, result, rankIn, rankOut, apiIn, apiOut, session, lastEvent>>

pipelineVars == <<pc, articles, error, idx, processed_articles, perspectives,
                  processed_sources, calls, persp_input, result>>

(* -------------------------- optional values --------------------------- *)

Null == <<>>

Some(x) == <<x>>

(* ------------------------------ strings ------------------------------- *)

Whitespace == {" ", "\t", "\n"}

DigitChars == <<"0", "1", "2", "3", "4", "5", "6", "7", "8", "9">>

\* str.isdigit on one character (ASCII alphabet)
IsDigit(c) == \E d \in 1..10 : DigitChars[d] = c

DigitVal(c) == (CHOOSE d \in 1..10 : DigitChars[d] = c) - 1

\* str.replace(c, '')
RemoveChar(s, c) == SelectSeq(s, LAMBDA x : x # c)

RECURSIVE LStrip(_)
LStrip(s) == IF s # <<>> /\ Head(s) \in Whitespace THEN LStrip(Tail(s)) ELSE s

RECURSIVE RStrip(_)
RStrip(s) ==
    IF s # <<>> /\ s[Len(s)] \in Whitespace
    THEN RStrip(SubSeq(s, 1, Len(s) - 1))
    ELSE s

\* str.strip()
Strip(s) == LStrip(RStrip(s))

\* str.lower() on the letters of the alphabet used by float()
LowerChar(c) ==
    CASE c = "N" -> "n" [] c = "A" -> "a" [] c = "I" -> "i" [] c = "F" -> "f"
      [] c = "T" -> "t" [] c = "Y" -> "y" [] OTHER -> c

Lower(s) == [i \in 1..Len(s) |-> LowerChar(s[i])]

(* ------------------------------- floats ------------------------------- *)

\* a finite float, given in tenths (39.9 is Fin(399))
Fin(v) == [k |-> "fin", v |-> v]

NaN == [k |-> "nan", v |-> 0]

\* sign is 1 or -1
Inf(sign) == [k |-> "inf", v |-> sign]

\* the float comparison a < b: false whenever one side is nan
FLt(a, b) ==
    IF a.k = "nan" \/ b.k = "nan" THEN FALSE
    ELSE IF a.k = "inf" THEN a.v < 0 /\ ~(b.k = "inf" /\ b.v < 0)
    ELSE IF b.k = "inf" THEN b.v > 0
    ELSE a.v < b.v

\* the float comparison a >= b
FGe(a, b) ==
    IF a.k = "nan" \/ b.k = "nan" THEN FALSE
    ELSE ~FLt(a, b)

\* the float comparison a == b
FEq(a, b) == a.k # "nan" /\ b.k # "nan" /\ a = b

RECURSIVE DigitsValue(_)
\* value of a non-empty string of decimal digits
DigitsValue(s) ==
    IF s = <<>> THEN 0
    ELSE 10 * DigitsValue(SubSeq(s, 1, Len(s) - 1)) + DigitVal(s[Len(s)])

AllDigits(s) == \A i \in 1..Len(s) : IsDigit(s[i])

\* float(s) for a str s: [ok |-> FALSE] stands for ValueError.  The grammar
\* covers whitespace, sign, nan, inf, infinity and decimal numbers with an
\* optional point; values are kept in tenths, so the labels of the model
\* carry at most one fractional digit (and no exponent or underscore).
ParseFloat(s) ==
    LET t == Strip(s)
        signed == t # <<>> /\ Head(t) \in {"+", "-"}
        sign == IF signed /\ Head(t) = "-" THEN -1 ELSE 1
        body == IF signed THEN Tail(t) ELSE t
        low == Lower(body)
        dots == {i \in 1..Len(body) : body[i] = "."}
        dot == IF dots = {} THEN Len(body) + 1 ELSE CHOOSE i \in dots : \A j \in dots : i <= j
        ip == SubSeq(body, 1, dot - 1)
        fp == SubSeq(body, dot + 1, Len(body))
    IN  IF low = <<"n", "a", "n">> THEN [ok |-> TRUE, val |-> NaN]
        ELSE IF low = <<"i", "n", "f">> \/ low = <<"i", "n", "f", "i", "n", "i", "t", "y">>
             THEN [ok |-> TRUE, val |-> Inf(sign)]
        ELSE IF /\ Cardinality(dots) <= 1
                /\ AllDigits(ip) /\ AllDigits(fp)
                /\ Len(ip) + Len(fp) >= 1
             THEN [ok |-> TRUE,
                   val |-> Fin(sign * (10 * DigitsValue(ip)
                                       + (IF fp = <<>> THEN 0 ELSE DigitVal(fp[1]))))]
        ELSE [ok |-> FALSE, val |-> Fin(0)]

(* -------------------- rank_articles_by_credibility -------------------- *)

\* the value of an article's "credibility" entry: a str, a number (given in
\* tenths), or no entry at all
StrCred(s) == [t |-> "str", s |-> s, n |-> 0]

NumCred(n) == [t |-> "num", s |-> <<>>, n |-> n]

NoCred == [t |-> "missing", s |-> <<>>, n |-> 0]

get_credibility_score_KeepsPercent(article) ==
    LET credibility == IF article.credibility.t = "missing"
                       THEN StrCred(<<"0">>)
                       ELSE article.credibility
    IN  IF credibility.t = "str"
        THEN LET r == ParseFloat(Strip(credibility.s))
             IN  IF r.ok THEN r.val ELSE Fin(0)
        ELSE Fin(credibility.n)

\* get_credibility_score: article.get("credibility", "0"); a str has '%'
\* removed, is stripped and parsed, ValueError giving 0.0; a number is used
\* as it is
get_credibility_score(article) ==
    LET credibility == IF article.credibility.t = "missing"
                       THEN StrCred(<<"0">>)
                       ELSE article.credibility
    IN  IF credibility.t = "str"
        THEN LET r == ParseFloat(Strip(RemoveChar(credibility.s, "%")))
             IN  IF r.ok THEN r.val ELSE Fin(0)
        ELSE Fin(credibility.n)

Reverse(s) == [i \in 1..Len(s) |-> s[Len(s) + 1 - i]]

\* count_run of list.sort: the length of the run that starts the list, and
\* whether it is strictly descending.  ks is a non-empty sequence of keys.
CountRun(ks) ==
    IF Len(ks) = 1 THEN [n |-> 1, desc |-> FALSE]
    ELSE LET desc == FLt(ks[2], ks[1])
             RECURSIVE Ext(_)
             Ext(n) == IF n < Len(ks) /\ (FLt(ks[n + 1], ks[n]) = desc)
                       THEN Ext(n + 1)
                       ELSE n
         IN  [n |-> Ext(2), desc |-> desc]

RECURSIVE BinPos_Unstable(_, _, _, _, _)
BinPos_Unstable(ks, ord, pivot, l, r) ==
    IF l >= r THEN l
    ELSE LET p == l + ((r - l) \div 2)
         IN  IF ~FLt(ks[ord[p]], ks[pivot])
             THEN BinPos_Unstable(ks, ord, pivot, l, p)
             ELSE BinPos_Unstable(ks, ord, pivot, p + 1, r)

RECURSIVE BinPos(_, _, _, _, _)
\* the binary search of binarysort: where pivot goes in ord[l..r-1]
BinPos(ks, ord, pivot, l, r) ==
    IF l >= r THEN l
    ELSE LET p == l + ((r - l) \div 2)
         IN  IF FLt(ks[pivot], ks[ord[p]])
             THEN BinPos(ks, ord, pivot, l, p)
             ELSE BinPos(ks, ord, pivot, p + 1, r)

RECURSIVE BinarySort(_, _, _)
\* binarysort: ord[1..start-1] is sorted; insert ord[start..] one by one
BinarySort(ks, ord, start) ==
    IF start > Len(ord) THEN ord
    ELSE LET pos == BinPos(ks, ord, ord[start], 1, start)
             moved == SubSeq(ord, 1, pos - 1) \o <<ord[start]>>
                      \o SubSeq(ord, pos, start - 1)
                      \o SubSeq(ord, start + 1, Len(ord))
         IN  BinarySort(ks, moved, start + 1)

SortedDescending_ReversedAscending(ks) ==
    IF Len(ks) = 0 THEN <<>>
    ELSE Reverse(BinarySort(ks, [i \in 1..Len(ks) |-> i], 2))

\* sorted(articles, key=..., reverse=True) for fewer than 64 elements, as a
\* sequence of positions of the input: the list is reversed, sorted
\* ascending with the < of the keys (one run found by count_run, the rest
\* inserted by binarysort), and reversed again
SortedDescending(ks) ==
    IF Len(ks) = 0 THEN <<>>
    ELSE LET rev == Reverse([i \in 1..Len(ks) |-> i])
             run == CountRun([i \in 1..Len(ks) |-> ks[rev[i]]])
             first == IF run.desc
                      THEN Reverse(SubSeq(rev, 1, run.n)) \o SubSeq(rev, run.n + 1, Len(rev))
                      ELSE rev
         IN  Reverse(BinarySort(ks, first, run.n + 1))

PriorityOf_Exclusive(credibility_score) ==
    IF FLt(Fin(800), credibility_score)
    THEN [label |-> "High Priority", color |-> "#10b981"]
    ELSE IF FLt(Fin(600), credibility_score)
    THEN [label |-> "Medium Priority", color |-> "#f59e0b"]
    ELSE IF FLt(Fin(400), credibility_score)
    THEN [label |-> "Low Priority", color |-> "#ef4444"]
    ELSE [label |-> "Very Low Priority", color |-> "#6b7280"]

\* the priority label and colour of a score
PriorityOf(credibility_score) ==
    IF FGe(credibility_score, Fin(800))
    THEN [label |-> "High Priority", color |-> "#10b981"]
    ELSE IF FGe(credibility_score, Fin(600))
    THEN [label |-> "Medium Priority", color |-> "#f59e0b"]
    ELSE IF FGe(credibility_score, Fin(400))
    THEN [label |-> "Low Priority", color |-> "#ef4444"]
    ELSE [label |-> "Very Low Priority", color |-> "#6b7280"]

Annotate_CleansLabel(article, i) ==
    LET credibility_score == get_credibility_score(article)
        p == PriorityOf(credibility_score)
    IN  [source |-> article.source,
         url |-> article.url,
         title |-> article.title,
         info |-> article.info,
         summary |-> article.summary,
         credibility |-> IF article.credibility.t = "str"
                         THEN StrCred(Strip(RemoveChar(article.credibility.s, "%")))
                         ELSE article.credibility,
         thumbnail |-> article.thumbnail,
         priority_rank |-> i,
         credibility_numeric |-> credibility_score,
         priority_label |-> p.label,
         priority_color |-> p.color]

\* the loop body that attaches rank, score, label and colour to an article
Annotate(article, i) ==
    LET credibility_score == get_credibility_score(article)
        p == PriorityOf(credibility_score)
    IN  [source |-> article.source,
         url |-> article.url,
         title |-> article.title,
         info |-> article.info,
         summary |-> article.summary,
         credibility |-> article.credibility,
         thumbnail |-> article.thumbnail,
         priority_rank |-> i,
         credibility_numeric |-> credibility_score,
         priority_label |-> p.label,
         priority_color |-> p.color]

rank_articles_by_credibility(arts) ==
    IF arts = <<>> THEN <<>>
    ELSE LET order == SortedDescending([i \in 1..Len(arts) |->
                                            get_credibility_score(arts[i])])
         IN  [i \in 1..Len(arts) |-> Annotate(arts[order[i]], i)]

(* ----------------------------- api clients ---------------------------- *)

\* what debug_groq_request gives a caller: None (no key, network error,
\* status other than 200, body that is not JSON), a JSON body without
\* choices[0].message.content as a str, or a body with that content
NoResp == [kind |-> "none", text |-> <<>>]

BadResp == [kind |-> "bad", text |-> <<>>]

Content(text) == [kind |-> "content", text |-> text]

\* summarize_text: None, or the stripped content
summarize_text(reply) ==
    IF reply.kind = "content" THEN Some(Strip(reply.text)) ELSE Null

NotAvailable == <<"N", "/", "A">>

\* rate_credibility: "N/A", or the digits of the stripped content, or the
\* stripped content itself when it has no digit
rate_credibility(reply) ==
    IF reply.kind = "content"
    THEN LET raw == Strip(reply.text)
             digits == SelectSeq(raw, IsDigit)
         IN  IF digits # <<>> THEN digits ELSE raw
    ELSE NotAvailable

\* summarize_all_articles: None for no articles, no response or a body
\* without content; else the stripped content
summarize_all_articles(arts, reply) ==
    IF arts = <<>> THEN Null
    ELSE IF reply.kind = "content" THEN Some(Strip(reply.text))
    ELSE Null

\* one GoogleSearch(params).get_dict(): a body with news_results, a body
\* without (or with empty) news_results that may carry an "error" entry, or
\* an exception with its message
SearchResults(items) == [kind |-> "results", items |-> items, haserr |-> FALSE, err |-> Null]

SearchEmpty(haserr, err) == [kind |-> "empty", items |-> <<>>, haserr |-> haserr, err |-> err]

SearchRaised(msg) == [kind |-> "raised", items |-> <<>>, haserr |-> TRUE, err |-> Some(msg)]

Min(a, b) == IF a <= b THEN a ELSE b

fetch_top_news_NoRetry(o1, o2, num_results) ==
    IF o1.kind = "results" /\ o1.items # <<>>
    THEN [items |-> SubSeq(o1.items, 1, Min(num_results, Len(o1.items))),
          error |-> Null, attempts |-> 1]
    ELSE [items |-> <<>>,
          error |-> IF o1.haserr THEN o1.err ELSE Some(NoNewsResults),
          attempts |-> 1]

\* fetch_top_news: o1 answers the trusted-outlets query, o2 the plain query
\* (made only if the first gave no items or raised)
fetch_top_news(o1, o2, num_results) ==
    IF o1.kind = "results" /\ o1.items # <<>>
    THEN [items |-> SubSeq(o1.items, 1, Min(num_results, Len(o1.items))),
          error |-> Null, attempts |-> 1]
    ELSE IF o2.kind = "results" /\ o2.items # <<>>
    THEN [items |-> SubSeq(o2.items, 1, Min(num_results, Len(o2.items))),
          error |-> Null, attempts |-> 2]
    ELSE IF o2.kind = "raised"
    THEN [items |-> <<>>, error |-> o2.err, attempts |-> 2]
    ELSE [items |-> <<>>,
          error |-> IF o2.haserr THEN o2.err ELSE Some(NoNewsResults),
          attempts |-> 2]

\* extract_article: what trafilatura does with the url
Downloaded(text) == [kind |-> "page", text |-> text]

DownloadFailed == [kind |-> "nopage", text |-> Null]

ExtractRaised == [kind |-> "raised", text |-> Null]

\* extract_article: the text, or None when the download gives nothing, the
\* page has no main text (None or "") or trafilatura raises
extract_article(o) ==
    IF o.kind = "page" /\ o.text # Null /\ o.text[1] # <<>> THEN o.text ELSE Null

TruthyMsg_NotNone(o) == o # Null

\* Python truth of an optional message (None and "" are false)
TruthyMsg(o) == o # Null /\ o[1] # ""

\* Python truth of an optional str of characters (None and "" are false)
TruthyStr(o) == o # Null /\ o[1] # <<>>

RECURSIVE Split(_, _)
\* str.split(c)
Split(s, c) ==
    LET hits == {i \in 1..Len(s) : s[i] = c}
    IN  IF hits = {} THEN <<s>>
        ELSE LET i == CHOOSE h \in hits : \A g \in hits : h <= g
             IN  <<SubSeq(s, 1, i - 1)>> \o Split(SubSeq(s, i + 1, Len(s)), c)

RECURSIVE CountLeading(_, _)
\* how many leading characters of s are in the set cs
CountLeading(s, cs) ==
    IF s # <<>> /\ Head(s) \in cs THEN 1 + CountLeading(Tail(s), cs) ELSE 0

DigitSet == {DigitChars[d] : d \in 1..10}

\* length of the match of ^\d+\.\s* at the start of line, 0 for no match
NumberingLen(line) ==
    LET k == CountLeading(line, DigitSet)
    IN  IF k >= 1 /\ Len(line) > k /\ line[k + 1] = "."
        THEN k + 1 + CountLeading(SubSeq(line, k + 2, Len(line)), Whitespace)
        ELSE 0

\* line.startswith(('•', '-', '*')); the alphabet of the model is ASCII
BulletChars == {"-", "*"}

QuestionOf_KeepsShort(rawline) ==
    LET line == Strip(rawline)
        n == NumberingLen(line)
    IN  IF line = <<>> THEN Null
        ELSE IF n > 0
        THEN Some(Strip(SubSeq(line, n + 1, Len(line))))
        ELSE IF Head(line) \in BulletChars
        THEN Some(Strip(Tail(line)))
        ELSE IF \E i \in 1..Len(line) : line[i] = "?"
        THEN Some(line)
        ELSE Null

\* the question a line of the reply contributes, if any (lines 260-278)
QuestionOf(rawline) ==
    LET line == Strip(rawline)
        n == NumberingLen(line)
    IN  IF line = <<>> THEN Null
        ELSE IF n > 0
        THEN LET question == Strip(SubSeq(line, n + 1, Len(line)))
             IN  IF Len(question) > 5 THEN Some(question) ELSE Null
        ELSE IF Head(line) \in BulletChars
        THEN LET question == Strip(Tail(line))
             IN  IF Len(question) > 5 THEN Some(question) ELSE Null
        ELSE IF (\E i \in 1..Len(line) : line[i] = "?") /\ Len(line) > 10
        THEN Some(line)
        ELSE Null

RECURSIVE Questions(_)
Questions(lines) ==
    IF lines = <<>> THEN <<>>
    ELSE QuestionOf(Head(lines)) \o Questions(Tail(lines))

Unique_KeepsAll(qs, seen) == qs

RECURSIVE Unique(_, _)
\* lines 281-286: drop repeats, keep the order of first occurrence
Unique(qs, seen) ==
    IF qs = <<>> THEN <<>>
    ELSE IF Head(qs) \in seen THEN Unique(Tail(qs), seen)
    ELSE <<Head(qs)>> \o Unique(Tail(qs), seen \cup {Head(qs)})

generate_followup_questions_IgnoresSummary(combined_summary, reply, n_questions) ==
    IF reply.kind # "content" THEN <<>>
    ELSE LET unique_questions == Unique(Questions(Split(reply.text, "\n")), {})
         IN  SubSeq(unique_questions, 1, Min(n_questions, Len(unique_questions)))

\* generate_followup_questions: [] without a summary, without a response or
\* when the body has no content; else the first n_questions distinct
\* questions of the reply
generate_followup_questions(combined_summary, reply, n_questions) ==
    IF ~TruthyStr(combined_summary) THEN <<>>
    ELSE IF reply.kind # "content" THEN <<>>
    ELSE LET unique_questions == Unique(Questions(Split(reply.text, "\n")), {})
         IN  SubSeq(unique_questions, 1, Min(n_questions, Len(unique_questions)))

\* a reply to the perspectives prompt: the content, and what json.loads
\* makes of it between the first '[' and the last ']': not JSON ("invalid"),
\* a list ("list"), an object ("object") or a string ("string"), each with
\* the elements that `for p in parsed` visits (the keys of an object and the
\* characters of a string are no objects), or a number, true, false or null
\* ("scalar"), which cannot be iterated
PerspectiveContent(text, json, elems) ==
    [kind |-> "content", text |-> text, json |-> json, elems |-> elems]

\* an element of the list: a JSON object with optional entries, or not
JsonObject(perspective, name, summary, fact, arts) ==
    [isobj |-> TRUE, perspective |-> perspective, name |-> name,
     summary |-> summary, interesting_fact |-> fact, articles |-> arts]

JsonScalar ==
    [isobj |-> FALSE, perspective |-> Null, name |-> Null, summary |-> Null,
     interesting_fact |-> Null, articles |-> Null]

\* x or y or "" on optional strs
OrElse(x, y) == IF TruthyStr(x) THEN x[1] ELSE IF TruthyStr(y) THEN y[1] ELSE <<>>

\* lines 481-485: keep what lies between the first '[' and the last ']'
Bracketed(raw) ==
    LET opens == {i \in 1..Len(raw) : raw[i] = "["}
        closes == {i \in 1..Len(raw) : raw[i] = "]"}
    IN  IF opens # {} /\ closes # {}
        THEN SubSeq(raw, CHOOSE i \in opens : \A j \in opens : i <= j,
                         CHOOSE i \in closes : \A j \in closes : i >= j)
        ELSE raw

\* extract_perspectives_from_articles: [] without articles, response or
\* content; one perspective for each element when the parsed content can be
\* iterated and every element visited is an object; else, p.get or the loop
\* raising, one "Analysis" perspective with the urls of all articles
extract_perspectives_from_articles(arts, reply) ==
    IF arts = <<>> \/ reply.kind # "content" THEN <<>>
    ELSE IF /\ reply.json \in {"list", "object", "string"}
            /\ \A i \in 1..Len(reply.elems) : reply.elems[i].isobj
    THEN [i \in 1..Len(reply.elems) |->
            LET q == reply.elems[i]
            IN  [perspective |-> OrElse(q.perspective, q.name),
                 summary |-> OrElse(q.summary, Null),
                 interesting_fact |-> OrElse(q.interesting_fact, Null),
                 articles |-> IF q.articles = Null THEN <<>> ELSE q.articles[1]]]
    ELSE <<[perspective |-> <<"A", "n", "a", "l", "y", "s", "i", "s">>,
            summary |-> Bracketed(Strip(reply.text)),
            interesting_fact |-> <<>>,
            articles |-> SelectSeq([i \in 1..Len(arts) |-> arts[i].url],
                                   LAMBDA u : u # 0)]>>

(* ------------------------- run_full_pipeline -------------------------- *)

\* the source entries of the candidates, in the order in which a list first
\* uses them; the second stands for a candidate without a source name
SourceOrder == <<Some("BBC"), Null, Some("CNN"), Some("Reuters"), Some("NPR"),
                 Some("AP"), Some("Politico"), Some("CNBC")>>

Max(a, b) == IF a >= b THEN a ELSE b

RECURSIVE MaxOf(_)
MaxOf(s) == IF s = <<>> THEN 0 ELSE Max(Head(s), MaxOf(Tail(s)))

RECURSIVE SourcePatterns(_)
\* the lists of n positions in SourceOrder in which every new source is the
\* next of SourceOrder and sources repeat only up to position MaxRepeatPos
SourcePatterns(n) ==
    IF n = 0 THEN {<<>>}
    ELSE UNION {{Append(l, k) : k \in (IF n <= MaxRepeatPos
                                       THEN 1..MaxOf(l) ELSE {})
                                      \cup {MaxOf(l) + 1}}
                : l \in SourcePatterns(n - 1)}

\* one entry of news_results: source name, title and thumbnail may be there
\* or not; the link is the arrival position, so it names the candidate (0
\* would be the empty url)
Candidate(src, i) ==
    [source |-> src, link |-> i,
     title |-> IF src = Null THEN Null ELSE Some("title"),
     thumbnail |-> IF src = Null THEN Null ELSE Some("thumb")]

CandidateLists ==
    {[i \in 1..Len(l) |-> Candidate(SourceOrder[l[i]], i)] :
        l \in UNION {SourcePatterns(n) : n \in 1..MaxCandidates}}

\* a list of six candidates from six sources, and a list of one candidate
ScenarioLists ==
    {<<Candidate(Some("Guardian"), 1), Candidate(Some("Al Jazeera"), 2),
       Candidate(Some("CBS"), 3), Candidate(Some("ABC"), 4),
       Candidate(Some("NBC"), 5), Candidate(Some("USA Today"), 6)>>,
     <<Candidate(Some("Fox"), 1)>>}

ErrorTexts == {"Invalid API key.", ""}

SearchOutcomes ==
    {SearchResults(l) : l \in CandidateLists \cup ScenarioLists \cup {<<>>}}
    \cup {SearchEmpty(FALSE, Null)}
    \cup {SearchEmpty(TRUE, e) : e \in {Null} \cup {Some(m) : m \in ErrorTexts}}
    \cup {SearchRaised(m) : m \in ErrorTexts}

\* art.get("source", {}).get("name", "Unknown Source")
SourceOf(art) == IF art.source = Null THEN UnknownSource ELSE art.source[1]

\* art.get("title") or ""
TitleOf(art) == IF art.title = Null THEN "" ELSE art.title[1]

ExtractOutcomes ==
    {Downloaded(Some(<<"T">>)), Downloaded(Some(<<>>)), Downloaded(Null),
     DownloadFailed, ExtractRaised}

SummaryReplies == {NoResp, BadResp, Content(<<" ", "S">>), Content(<<" ">>)}

\* replies to the credibility prompt; they give the labels "N/A" and "90"
CredibilityReplies ==
    {NoResp, BadResp, Content(<<"N", "/", "A">>), Content(<<" ", "9", "0">>),
     Content(<<"9", ".", "0">>)}

\* the replies to the credibility prompt for a source: the sources of
\* ScenarioLists get the scores 90, 55, 55 and 10, no reply, and replies that
\* are more than a number from 0 to 100; the other sources get
\* CredibilityReplies
CredibilityRepliesFor(source) ==
    CASE source = "Guardian" -> {Content(<<"9", "0">>)}
      [] source = "Al Jazeera" -> {Content(<<"5", "5">>)}
      [] source = "CBS" -> {Content(<<"5", "5", "%">>)}
      [] source = "ABC" -> {Content(<<" ", "1", "0", "\n">>)}
      [] source \in {"NBC", "USA Today"} -> {NoResp}
      [] source = "Fox" -> {Content(<<"8", "5", "/", "1", "0", "0">>), Content(<<"1", "5", "0">>), Content(<<"n", "a", "n">>)}
      [] OTHER -> CredibilityReplies

Call(fn, cand, ok) == [fn |-> fn, cand |-> cand, ok |-> ok]

Failure(msg) ==
    [ranked_articles |-> Null, combined_summary |-> Null, followups |-> <<>>,
     perspectives |-> <<>>, error |-> Some(msg)]

Init ==
    /\ pc = "start"
    /\ articles = <<>>
    /\ error = Null
    /\ idx = 1
    /\ processed_articles = <<>>
    /\ perspectives = <<>>
    /\ processed_sources = {}
    /\ calls = <<>>
    /\ persp_input = Null
    /\ result = Null
    /\ rankIn = <<>>
    /\ rankOut = Null
    /\ apiIn = Null
    /\ apiOut = Null
    /\ session = Null
    /\ lastEvent = Null

SearchError_DropsMessage ==
    /\ pc = "start"
    /\ \E o1, o2 \in SearchOutcomes :
         LET r == fetch_top_news(o1, o2, NumResults)
         IN  /\ TruthyMsg(r.error)
             /\ articles' = r.items
             /\ error' = r.error
             /\ result' = Some(Failure(NoArticlesFound))
    /\ pc' = "done"
    /\ UNCHANGED <<idx, processed_articles, perspectives, processed_sources,
                   calls, persp_input, rankIn, rankOut, apiIn, apiOut, session, lastEvent>>

\* lines 166-171: the search returns an error
SearchError ==
    /\ pc = "start"
    /\ \E o1, o2 \in SearchOutcomes :
         LET r == fetch_top_news(o1, o2, NumResults)
         IN  /\ TruthyMsg(r.error)
             /\ articles' = r.items
             /\ error' = r.error
             /\ result' = Some(Failure(r.error[1]))
    /\ pc' = "done"
    /\ UNCHANGED <<idx, processed_articles, perspectives, processed_sources,
                   calls, persp_input, rankIn, rankOut, apiIn, apiOut, session, lastEvent>>

SearchNothing_Conflated ==
    /\ pc = "start"
    /\ \E o1, o2 \in SearchOutcomes :
         LET r == fetch_top_news(o1, o2, NumResults)
         IN  /\ ~TruthyMsg(r.error)
             /\ r.items = <<>>
             /\ articles' = r.items
             /\ error' = r.error
             /\ result' = Some(Failure(CouldNotProcess))
    /\ pc' = "done"
    /\ UNCHANGED <<idx, processed_articles, perspectives, processed_sources,
                   calls, persp_input, rankIn, rankOut, apiIn, apiOut, session, lastEvent>>

\* lines 166-174: no error and no candidate
SearchNothing ==
    /\ pc = "start"
    /\ \E o1, o2 \in SearchOutcomes :
         LET r == fetch_top_news(o1, o2, NumResults)
         IN  /\ ~TruthyMsg(r.error)
             /\ r.items = <<>>
             /\ articles' = r.items
             /\ error' = r.error
             /\ result' = Some(Failure(NoArticlesFound))
    /\ pc' = "done"
    /\ UNCHANGED <<idx, processed_articles, perspectives, processed_sources,
                   calls, persp_input, rankIn, rankOut, apiIn, apiOut, session, lastEvent>>

\* lines 166-176: candidates to process
SearchFound ==
    /\ pc = "start"
    /\ \E o1, o2 \in SearchOutcomes :
         LET r == fetch_top_news(o1, o2, NumResults)
         IN  /\ ~TruthyMsg(r.error)
             /\ r.items # <<>>
             /\ articles' = r.items
             /\ error' = r.error
    /\ pc' = "loop"
    /\ UNCHANGED <<idx, processed_articles, perspectives, processed_sources,
                   calls, persp_input, result, rankIn, rankOut, apiIn, apiOut, session, lastEvent>>

InLoop == pc = "loop" /\ idx <= Len(articles)

AlreadyProcessed_Never(source) == FALSE

\* line 181: source in processed_sources
AlreadyProcessed(source) == source \in processed_sources

SkipDuplicate_Sleeps ==
    /\ InLoop
    /\ AlreadyProcessed(SourceOf(articles[idx]))
    /\ calls' = Append(calls, Call("sleep", idx, TRUE))
    /\ idx' = idx + 1
    /\ UNCHANGED <<pc, articles, error, processed_articles, perspectives,
                   processed_sources, persp_input, result, rankIn, rankOut, apiIn, apiOut, session, lastEvent>>

\* lines 179-182: the source already produced an outcome
SkipDuplicate ==
    /\ InLoop
    /\ AlreadyProcessed(SourceOf(articles[idx]))
    /\ idx' = idx + 1
    /\ UNCHANGED <<pc, articles, error, processed_articles, perspectives,
                   processed_sources, calls, persp_input, result, rankIn, rankOut, apiIn, apiOut, session, lastEvent>>

ExtractionFails_Aborts ==
    /\ InLoop
    /\ ~AlreadyProcessed(SourceOf(articles[idx]))
    /\ \E o \in ExtractOutcomes :
         /\ ~TruthyStr(extract_article(o))
         /\ calls' = Append(calls, Call("extract_article", idx, FALSE))
    /\ result' = Some(Failure(CouldNotProcess))
    /\ pc' = "done"
    /\ UNCHANGED <<articles, error, idx, processed_articles, perspectives,
                   processed_sources, persp_input, rankIn, rankOut, apiIn, apiOut, session, lastEvent>>

\* lines 186-190: extract_article returns nothing
ExtractionFails ==
    /\ InLoop
    /\ ~AlreadyProcessed(SourceOf(articles[idx]))
    /\ \E o \in ExtractOutcomes :
         /\ ~TruthyStr(extract_article(o))
         /\ calls' = Append(calls, Call("extract_article", idx, FALSE))
    /\ idx' = idx + 1
    /\ UNCHANGED <<pc, articles, error, processed_articles, perspectives,
                   processed_sources, persp_input, result, rankIn, rankOut, apiIn, apiOut, session, lastEvent>>

SummarizationFails_KeepsCandidate ==
    /\ InLoop
    /\ ~AlreadyProcessed(SourceOf(articles[idx]))
    /\ \E o \in ExtractOutcomes, r \in SummaryReplies :
         /\ TruthyStr(extract_article(o))
         /\ ~TruthyStr(summarize_text(r))
         /\ calls' = calls \o <<Call("extract_article", idx, TRUE),
                                Call("summarize_text", idx, FALSE)>>
    /\ perspectives' = Append(perspectives,
           [source |-> SourceOf(articles[idx]), url |-> articles[idx].link,
            title |-> TitleOf(articles[idx]), summary |-> <<>>])
    /\ idx' = idx + 1
    /\ UNCHANGED <<pc, articles, error, processed_articles,
                   processed_sources, persp_input, result, rankIn, rankOut, apiIn, apiOut, session, lastEvent>>

\* lines 186-195: summarize_text returns nothing
SummarizationFails ==
    /\ InLoop
    /\ ~AlreadyProcessed(SourceOf(articles[idx]))
    /\ \E o \in ExtractOutcomes, r \in SummaryReplies :
         /\ TruthyStr(extract_article(o))
         /\ ~TruthyStr(summarize_text(r))
         /\ calls' = calls \o <<Call("extract_article", idx, TRUE),
                                Call("summarize_text", idx, FALSE)>>
    /\ idx' = idx + 1
    /\ UNCHANGED <<pc, articles, error, processed_articles, perspectives,
                   processed_sources, persp_input, result, rankIn, rankOut, apiIn, apiOut, session, lastEvent>>

AddHeadline_ForgetsSource ==
    /\ InLoop
    /\ ~AlreadyProcessed(SourceOf(articles[idx]))
    /\ Len(processed_articles) < HeadlineCap
    /\ \E o \in ExtractOutcomes, r \in SummaryReplies,
          c \in CredibilityRepliesFor(SourceOf(articles[idx])) :
         LET art == articles[idx]
             text == extract_article(o)
             summary == summarize_text(r)
         IN  /\ TruthyStr(text)
             /\ TruthyStr(summary)
             /\ processed_articles' = Append(processed_articles,
                    [source |-> SourceOf(art),
                     url |-> art.link,
                     title |-> TitleOf(art),
                     info |-> text[1],
                     summary |-> Strip(summary[1]),
                     credibility |-> StrCred(rate_credibility(c)),
                     thumbnail |-> art.thumbnail])
             /\ calls' = calls \o <<Call("extract_article", idx, TRUE),
                                    Call("summarize_text", idx, TRUE),
                                    Call("rate_credibility", idx, TRUE),
                                    Call("sleep", idx, TRUE)>>
    /\ processed_sources' = processed_sources
    /\ idx' = idx + 1
    /\ UNCHANGED <<pc, articles, error, perspectives, persp_input, result,
                   rankIn, rankOut, apiIn, apiOut, session, lastEvent>>

\* lines 186-211 and 222: a headline article
AddHeadline ==
    /\ InLoop
    /\ ~AlreadyProcessed(SourceOf(articles[idx]))
    /\ Len(processed_articles) < HeadlineCap
    /\ \E o \in ExtractOutcomes, r \in SummaryReplies,
          c \in CredibilityRepliesFor(SourceOf(articles[idx])) :
         LET art == articles[idx]
             text == extract_article(o)
             summary == summarize_text(r)
         IN  /\ TruthyStr(text)
             /\ TruthyStr(summary)
             /\ processed_articles' = Append(processed_articles,
                    [source |-> SourceOf(art),
                     url |-> art.link,
                     title |-> TitleOf(art),
                     info |-> text[1],
                     summary |-> Strip(summary[1]),
                     credibility |-> StrCred(rate_credibility(c)),
                     thumbnail |-> art.thumbnail])
             /\ calls' = calls \o <<Call("extract_article", idx, TRUE),
                                    Call("summarize_text", idx, TRUE),
                                    Call("rate_credibility", idx, TRUE),
                                    Call("sleep", idx, TRUE)>>
    /\ processed_sources' = processed_sources \cup {SourceOf(articles[idx])}
    /\ idx' = idx + 1
    /\ UNCHANGED <<pc, articles, error, perspectives, persp_input, result,
                   rankIn, rankOut, apiIn, apiOut, session, lastEvent>>

AddToPool_Rates ==
    /\ InLoop
    /\ ~AlreadyProcessed(SourceOf(articles[idx]))
    /\ ~(Len(processed_articles) < HeadlineCap)
    /\ \E o \in ExtractOutcomes, r \in SummaryReplies :
         LET art == articles[idx]
             text == extract_article(o)
             summary == summarize_text(r)
         IN  /\ TruthyStr(text)
             /\ TruthyStr(summary)
             /\ perspectives' = Append(perspectives,
                    [source |-> SourceOf(art),
                     url |-> art.link,
                     title |-> TitleOf(art),
                     summary |-> Strip(summary[1])])
             /\ calls' = calls \o <<Call("extract_article", idx, TRUE),
                                    Call("summarize_text", idx, TRUE),
                                    Call("rate_credibility", idx, TRUE),
                                    Call("sleep", idx, TRUE)>>
    /\ processed_sources' = processed_sources \cup {SourceOf(articles[idx])}
    /\ idx' = idx + 1
    /\ UNCHANGED <<pc, articles, error, processed_articles, persp_input, result,
                   rankIn, rankOut, apiIn, apiOut, session, lastEvent>>

\* lines 186-199 and 212-222: an item of the perspective pool
AddToPool ==
    /\ InLoop
    /\ ~AlreadyProcessed(SourceOf(articles[idx]))
    /\ ~(Len(processed_articles) < HeadlineCap)
    /\ \E o \in ExtractOutcomes, r \in SummaryReplies :
         LET art == articles[idx]
             text == extract_article(o)
             summary == summarize_text(r)
         IN  /\ TruthyStr(text)
             /\ TruthyStr(summary)
             /\ perspectives' = Append(perspectives,
                    [source |-> SourceOf(art),
                     url |-> art.link,
                     title |-> TitleOf(art),
                     summary |-> Strip(summary[1])])
             /\ calls' = calls \o <<Call("extract_article", idx, TRUE),
                                    Call("summarize_text", idx, TRUE),
                                    Call("sleep", idx, TRUE)>>
    /\ processed_sources' = processed_sources \cup {SourceOf(articles[idx])}
    /\ idx' = idx + 1
    /\ UNCHANGED <<pc, articles, error, processed_articles, persp_input, result,
                   rankIn, rankOut, apiIn, apiOut, session, lastEvent>>

LoopDone == pc = "loop" /\ idx > Len(articles)

NothingProcessed_Conflated ==
    /\ LoopDone
    /\ processed_articles = <<>>
    /\ result' = Some(Failure(NoArticlesFound))
    /\ pc' = "done"
    /\ UNCHANGED <<articles, error, idx, processed_articles, perspectives,
                   processed_sources, calls, persp_input, rankIn, rankOut, apiIn, apiOut, session, lastEvent>>

NothingProcessed_WrongList ==
    /\ LoopDone
    /\ perspectives = <<>>
    /\ result' = Some(Failure(CouldNotProcess))
    /\ pc' = "done"
    /\ UNCHANGED <<articles, error, idx, processed_articles, perspectives,
                   processed_sources, calls, persp_input, rankIn, rankOut, apiIn, apiOut, session, lastEvent>>

\* lines 224-225: no headline article
NothingProcessed ==
    /\ LoopDone
    /\ processed_articles = <<>>
    /\ result' = Some(Failure(CouldNotProcess))
    /\ pc' = "done"
    /\ UNCHANGED <<articles, error, idx, processed_articles, perspectives,
                   processed_sources, calls, persp_input, rankIn, rankOut, apiIn, apiOut, session, lastEvent>>

AllForPerspectives_HeadlinesOnly(ranked_articles, pool) == ranked_articles

\* lines 234-235: all_for_perspectives = ranked_articles + perspectives
AllForPerspectives(ranked_articles, pool) == ranked_articles \o pool

SynthesisReplies == {NoResp, BadResp, Content(<<"C", " ">>)}

PerspectiveReplies ==
    {NoResp,
     PerspectiveContent(<<"n", "o", " ", "[", "x", "]", ".">>, "invalid", <<>>),
     PerspectiveContent(<<"[", "]">>, "list",
        <<JsonObject(Null, Some(<<"P">>), Some(<<"s">>), Null, Some(<<1>>))>>)}

\* no reply, or seven numbered lines: a question, the same question again
\* and five other questions
FollowupReplies ==
    {NoResp,
     Content(<<"1", ".", " ", "W", "h", "y", " ", "a", "?", "\n",
             "2", ".", " ", "W", "h", "y", " ", "a", "?", "\n",
             "3", ".", " ", "W", "h", "y", " ", "b", "?", "\n",
             "4", ".", " ", "W", "h", "y", " ", "c", "?", "\n",
             "5", ".", " ", "W", "h", "y", " ", "d", "?", "\n",
             "6", ".", " ", "W", "h", "y", " ", "e", "?", "\n",
             "7", ".", " ", "W", "h", "y", " ", "f", "?">>)}

\* processing.py lines 224-241: rank the headline set, synthesize, extract
\* perspectives, generate follow-ups and return.  Ranking attaches its
\* entries to the articles of processed_articles themselves.
Finish ==
    /\ LoopDone
    /\ processed_articles # <<>>
    /\ \E ranked_articles \in {rank_articles_by_credibility(processed_articles)},
          sr \in SynthesisReplies, pr \in PerspectiveReplies, fr \in FollowupReplies :
         LET combined_summary == summarize_all_articles(ranked_articles, sr)
             all_for_perspectives == AllForPerspectives(ranked_articles, perspectives)
             extracted_perspectives ==
                 extract_perspectives_from_articles(all_for_perspectives, pr)
             followups ==
                 generate_followup_questions(combined_summary, fr, NQuestions)
         IN  /\ processed_articles' =
                    [i \in 1..Len(processed_articles) |->
                        ranked_articles[CHOOSE j \in 1..Len(ranked_articles) :
                            ranked_articles[j].url = processed_articles[i].url]]
             /\ persp_input' = Some(all_for_perspectives)
             /\ calls' = calls \o
                    <<Call("rank_articles_by_credibility", 0, TRUE),
                      Call("summarize_all_articles", 0, combined_summary # Null),
                      Call("extract_perspectives_from_articles", 0,
                           extracted_perspectives # <<>>),
                      Call("generate_followup_questions", 0, followups # <<>>)>>
             /\ result' = Some([ranked_articles |-> Some(ranked_articles),
                                combined_summary |-> combined_summary,
                                followups |-> followups,
                                perspectives |-> extracted_perspectives,
                                error |-> Null])
    /\ pc' = "done"
    /\ UNCHANGED <<articles, error, idx, perspectives, processed_sources,
                   rankIn, rankOut, apiIn, apiOut, session, lastEvent>>

Next ==
    \/ SearchError
    \/ SearchNothing
    \/ SearchFound
    \/ SkipDuplicate
    \/ ExtractionFails
    \/ SummarizationFails
    \/ AddHeadline
    \/ AddToPool
    \/ NothingProcessed
    \/ Finish

Spec == Init /\ [][Next]_vars

(* --------------- rank_articles_by_credibility on its own --------------- *)

\* credibility entries of every kind: numbers as text, with '%' or spaces,
\* with a fractional digit, text that is no number, "N/A", "nan", a number
\* that is no str, and no entry
RankLabels ==
    {StrCred(<<"9", "0">>), StrCred(<<"5", "5">>), StrCred(<<"7", "3", "%">>),
     StrCred(<<" ", "4", "0", " ">>), StrCred(<<"3", "9", ".", "9">>),
     StrCred(<<"a", "b", "c">>), StrCred(NotAvailable),
     StrCred(<<"n", "a", "n">>), NumCred(600), NoCred}

\* entries for long lists: two numbers and "nan"
TieLabels == {StrCred(<<"3">>), StrCred(<<"5">>), StrCred(<<"n", "a", "n">>)}

\* entries at the edges of the priority tiers: 0, 39.9, 40, 59.9, 60, 79.9,
\* 80 and 100
BoundaryLabels ==
    {StrCred(<<"0">>), StrCred(<<"3", "9", ".", "9">>), StrCred(<<"4", "0">>),
     StrCred(<<"5", "9", ".", "9">>), StrCred(<<"6", "0">>),
     StrCred(<<"7", "9", ".", "9">>), StrCred(<<"8", "0">>),
     StrCred(<<"1", "0", "0">>)}

\* an article as run_full_pipeline builds it; the url is its input position
RankArticle(i, cred) ==
    [source |-> "BBC", url |-> i, title |-> "title", info |-> <<"T">>,
     summary |-> <<"S">>, credibility |-> cred, thumbnail |-> Some("thumb")]

\* the list of articles with the given credibility entries
RankInput(creds) == [i \in 1..Len(creds) |-> RankArticle(i, creds[i])]

InitRank ==
    /\ pc = "idle"
    /\ articles = <<>>
    /\ error = Null
    /\ idx = 1
    /\ processed_articles = <<>>
    /\ perspectives = <<>>
    /\ processed_sources = {}
    /\ calls = <<>>
    /\ persp_input = Null
    /\ result = Null
    /\ \/ \E n \in 0..MaxRankLen : \E f \in [1..n -> RankLabels] :
             rankIn = RankInput(f)
       \/ \E n \in 0..MaxTieLen : \E f \in [1..n -> TieLabels] :
             rankIn = RankInput(f)
       \/ \E n \in 0..MaxRankLen : \E f \in [1..n -> BoundaryLabels] :
             rankIn = RankInput(f)
    /\ rankOut = Null
    /\ apiIn = Null
    /\ apiOut = Null
    /\ session = Null
    /\ lastEvent = Null

\* rank_articles_by_credibility(rankIn)
RankCall ==
    /\ pc = "idle"
    /\ rankOut = Null
    /\ rankOut' = Some(rank_articles_by_credibility(rankIn))
    /\ UNCHANGED <<pipelineVars, rankIn, apiIn, apiOut, session, lastEvent>>

NextRank == RankCall

SpecRank == InitRank /\ [][NextRank]_vars

(* --------------------- api clients on their own ----------------------- *)

\* lines of a reply to the follow-up prompt: questions of four characters,
\* questions of more than ten, a numbered and a bulleted line with the same
\* question, a numbered line with a question of three characters and a
\* line without a question mark
WhyShort == <<"W", "h", "y", "?">>

HowShort == <<"H", "o", "w", "?">>

WhyLong == <<"W", "h", "y", " ", "i", "s", " ", "i", "t", " ", "s", "o", "?">>

HowLong == <<"H", "o", "w", " ", "i", "s", " ", "i", "t", " ", "s", "o", "?">>

WhyNumbered == <<"1", ".", " ", "W", "h", "y", " ", "s", "o", "?">>

WhyBulleted == <<"-", " ", "W", "h", "y", " ", "s", "o", "?">>

ShortNumbered == <<"2", ".", " ", "H", "m", "?">>

NoQuestion == <<"N", "o", " ", "q", "u", "e", "s", "t", "i", "o", "n", ".">>

ReplyLines ==
    {WhyShort, HowShort, WhyLong, HowLong,
     WhyNumbered, WhyBulleted, ShortNumbered, NoQuestion, <<>>}

RECURSIVE JoinLines(_)
\* "\n".join(lines)
JoinLines(lines) ==
    IF lines = <<>> THEN <<>>
    ELSE IF Len(lines) = 1 THEN lines[1]
    ELSE lines[1] \o <<"\n">> \o JoinLines(Tail(lines))

\* the values of n_questions: the default and two smaller ones
NQuestionChoices == {1, 2, NQuestions}

\* the summaries given to generate_followup_questions
SummaryChoices == {Null, Some(<<"C">>)}

FollowupInput(combined_summary, reply, n_questions) ==
    [fn |-> "generate_followup_questions", combined_summary |-> combined_summary,
     reply |-> reply, n_questions |-> n_questions]

FetchInput(o1, o2, num_results) ==
    [fn |-> "fetch_top_news", o1 |-> o1, o2 |-> o2, num_results |-> num_results]

\* articles given to extract_perspectives_from_articles; the url 0 is the
\* empty url
PerspArticle(u) ==
    [source |-> "BBC", url |-> u, title |-> "title", summary |-> <<"S">>]

PerspArticleLists ==
    {<<>>, <<PerspArticle(1)>>, <<PerspArticle(2), PerspArticle(0), PerspArticle(1)>>,
     <<PerspArticle(0)>>}

\* replies to the perspectives prompt: none, a body without content, text
\* that is no JSON, lists of objects, a list with a number, the objects {}
\* and {"a": 1}, the strings "" and "a", and a number
PerspectiveRepliesAll ==
    PerspectiveReplies \cup
    {BadResp,
     PerspectiveContent(<<"[", "]">>, "list", <<>>),
     PerspectiveContent(<<"[", "1", "]">>, "list", <<JsonScalar>>),
     PerspectiveContent(<<"[", "{", "}", ",", " ", "1", "]">>, "list",
        <<JsonObject(Some(<<"P">>), Null, Null, Some(<<"f">>), Null), JsonScalar>>),
     PerspectiveContent(<<"{", "}">>, "object", <<>>),
     PerspectiveContent(<<"{", "\"", "a", "\"", ":", " ", "1", "}">>, "object", <<JsonScalar>>),
     PerspectiveContent(<<"\"", "\"">>, "string", <<>>),
     PerspectiveContent(<<"\"", "a", "\"">>, "string", <<JsonScalar>>),
     PerspectiveContent(<<"5">>, "scalar", <<>>)}

PerspectivesInput(arts, reply) ==
    [fn |-> "extract_perspectives_from_articles", articles |-> arts, reply |-> reply]

InitApi ==
    /\ pc = "api"
    /\ articles = <<>>
    /\ error = Null
    /\ idx = 1
    /\ processed_articles = <<>>
    /\ perspectives = <<>>
    /\ processed_sources = {}
    /\ calls = <<>>
    /\ persp_input = Null
    /\ result = Null
    /\ rankIn = <<>>
    /\ rankOut = Null
    /\ \/ \E cs \in SummaryChoices, nq \in NQuestionChoices :
             \/ \E n \in 0..MaxReplyLines : \E f \in [1..n -> ReplyLines] :
                   apiIn = FollowupInput(cs, Content(JoinLines(f)), nq)
             \/ \E r \in FollowupReplies \cup {BadResp} :
                   apiIn = FollowupInput(cs, r, nq)
       \/ \E o1, o2 \in SearchOutcomes : apiIn = FetchInput(o1, o2, NumResults)
       \/ \E arts \in PerspArticleLists, r \in PerspectiveRepliesAll :
             apiIn = PerspectivesInput(arts, r)
    /\ apiOut = Null
    /\ session = Null
    /\ lastEvent = Null

\* generate_followup_questions(combined_summary, n_questions)
FollowupCall ==
    /\ pc = "api"
    /\ apiOut = Null
    /\ apiIn.fn = "generate_followup_questions"
    /\ apiOut' = Some(generate_followup_questions(apiIn.combined_summary,
                                                  apiIn.reply, apiIn.n_questions))
    /\ UNCHANGED <<pipelineVars, rankIn, rankOut, apiIn, session, lastEvent>>

\* fetch_top_news(query, serp_api_key, num_results)
FetchCall ==
    /\ pc = "api"
    /\ apiOut = Null
    /\ apiIn.fn = "fetch_top_news"
    /\ apiOut' = Some(fetch_top_news(apiIn.o1, apiIn.o2, apiIn.num_results))
    /\ UNCHANGED <<pipelineVars, rankIn, rankOut, apiIn, session, lastEvent>>

\* extract_perspectives_from_articles(articles)
PerspectivesCall ==
    /\ pc = "api"
    /\ apiOut = Null
    /\ apiIn.fn = "extract_perspectives_from_articles"
    /\ apiOut' = Some(extract_perspectives_from_articles(apiIn.articles, apiIn.reply))
    /\ UNCHANGED <<pipelineVars, rankIn, rankOut, apiIn, session, lastEvent>>

NextApi ==
    \/ FollowupCall
    \/ FetchCall
    \/ PerspectivesCall

SpecApi == InitApi /\ [][NextApi]_vars

(* --------------------------- the application -------------------------- *)

\* st.session_state after clear(): get() of every entry gives None
EmptySession ==
    [has_searched |-> Null, query |-> Null, summary |-> Null, articles |-> Null,
     followups |-> Null, perspectives |-> Null, error |-> Null, context |-> Null,
     floating_chat |-> Null, followup_answers |-> Null, session_id |-> Null]

\* str(uuid.uuid4())
SessionIds == {"id1", "id2"}

\* the session-state initialisation of a script run, get_session_id included
SessionInit(s, id) ==
    [s EXCEPT !.floating_chat = IF @ = Null THEN Some(<<>>) ELSE @,
              !.followup_answers = IF @ = Null THEN Some(<<>>) ELSE @,
              !.session_id = IF @ = Null THEN Some(id) ELSE @]

\* the five assignments that follow a call of run_full_pipeline
StoreResult_ErrorOnly(s, r) ==
    IF r.error # Null THEN [s EXCEPT !.error = r.error]
    ELSE [s EXCEPT !.articles = r.ranked_articles,
                   !.summary = r.combined_summary,
                   !.followups = Some(r.followups),
                   !.perspectives = Some(r.perspectives),
                   !.error = r.error]

StoreResult(s, r) ==
    [s EXCEPT !.articles = r.ranked_articles,
              !.summary = r.combined_summary,
              !.followups = Some(r.followups),
              !.perspectives = Some(r.perspectives),
              !.error = r.error]

\* an article as rank_articles_by_credibility returns it
AppArticle ==
    [source |-> "BBC", url |-> 1, title |-> "title", info |-> <<"T">>,
     summary |-> <<"S">>, credibility |-> StrCred(<<"9", "0">>),
     thumbnail |-> Some("thumb"), priority_rank |-> 1,
     credibility_numeric |-> Fin(900), priority_label |-> "High Priority",
     priority_color |-> "#10b981"]

\* a perspective as extract_perspectives_from_articles returns it
AppPerspective ==
    [perspective |-> <<"P">>, summary |-> <<"s">>, interesting_fact |-> <<>>,
     articles |-> <<1>>]

\* the follow-up questions of a run
AppQuestions ==
    <<<<"W", "h", "y", " ", "a", "?">>, <<"W", "h", "y", " ", "b", "?">>,
      <<"W", "h", "y", " ", "c", "?">>, <<"W", "h", "y", " ", "d", "?">>,
      <<"W", "h", "y", " ", "e", "?">>>>

\* a successful return of run_full_pipeline, for one processed article
PipelineSuccess(combined_summary, followups) ==
    [ranked_articles |-> Some(<<AppArticle>>),
     combined_summary |-> combined_summary,
     followups |-> followups,
     perspectives |-> <<AppPerspective>>,
     error |-> Null]

\* what run_full_pipeline can return: its three failures, and a success
\* without summary (and so without follow-up questions), with a summary
\* and no questions, with a summary and five questions
PipelineResults ==
    {Failure(m) : m \in {"Invalid API key.", NoArticlesFound, CouldNotProcess}}
    \cup {PipelineSuccess(Null, <<>>),
          PipelineSuccess(Some(<<"C">>), <<>>),
          PipelineSuccess(Some(<<"C">>), AppQuestions)}

StartsWith(s, prefix) ==
    Len(s) >= Len(prefix) /\ SubSeq(s, 1, Len(prefix)) = prefix

Http == <<"h", "t", "t", "p">>

ErrorPrefixes == {<<"f", "f", "m", "p", "e", "g", " ", "n", "o", "t", " ", "f", "o", "u", "n", "d">>, <<"A", "n", " ", "e", "r", "r", "o", "r", " ", "o", "c", "c", "u", "r", "r", "e", "d">>, <<"E", "r", "r", "o", "r", ":">>}

ImageError == <<"E", "r", "r", "o", "r", ":", " ", "u", "p", "l", "o", "a", "d", "e", "d", " ", "i", "m", "a", "g", "e", " ", "i", "s", " ", "e", "m", "p", "t", "y", ".">>

VideoError == <<"E", "r", "r", "o", "r", ":", " ", "N", "o", " ", "v", "i", "d", "e", "o", " ", "f", "i", "l", "e", " ", "u", "p", "l", "o", "a", "d", "e", "d", ".">>

Keywords == <<"k", "w">>

\* what the form holds when it is submitted: text, or an uploaded file with
\* the keywords computed from it
FormInput(kind, text, keywords) == [kind |-> kind, text |-> text, keywords |-> keywords]

FormInputs ==
    {FormInput("text", t, k) :
        t \in {<<"q">>, <<" ", "q", " ">>, <<" ">>, Http \o <<":", "u">>},
        k \in {Null, Some(Keywords)}}
    \cup {FormInput("doc", <<>>, k) : k \in {Null, Some(Keywords)}}
    \cup {FormInput("img", <<>>, k) : k \in {Some(Keywords), Some(ImageError)}}
    \cup {FormInput("vid", <<>>, k) : k \in {Null, Some(Keywords), Some(VideoError)}}
    \cup {FormInput("nothing", <<>>, Null)}

\* the query the submit block stores; Null where it stores None or nothing
QueryOfForm(inp) ==
    CASE inp.kind = "text" ->
            IF StartsWith(Strip(inp.text), Http) THEN inp.keywords
            ELSE Some(Strip(inp.text))
      [] inp.kind \in {"doc", "img"} -> inp.keywords
      [] inp.kind = "vid" ->
            IF inp.keywords # Null
               /\ \E p \in ErrorPrefixes : StartsWith(inp.keywords[1], p)
            THEN Null ELSE inp.keywords
      [] OTHER -> Null

\* the text typed into the chat input
ChatTexts == {<<"w", "h", "y">>}

\* the attachment of a chat message: none, an image or a video, with the
\* description or the keywords computed from it
ChatFile(type, name, desc) == [type |-> type, name |-> name, desc |-> desc]

NoFile == ChatFile("none", <<>>, Null)

ChatFiles ==
    {NoFile,
     ChatFile("image", <<"a">>, Some(<<"d">>)),
     ChatFile("video", <<"v">>, Some(Keywords)),
     ChatFile("video", <<"v">>, Null)}

\* str() of an optional string inside an f-string
Format(o) == IF o = Null THEN <<"N", "o", "n", "e">> ELSE o[1]

Attached(name) == <<" ", "[", "A", "t", "t", "a", "c", "h", "e", "d", ":", " ">> \o name \o <<"]">>

ImageContext == <<" ", "\n", "\n", "I", "m", "a", "g", "e", " ", "C", "o", "n", "t", "e", "x", "t", ":", " ">>

VideoContext == <<" ", "\n", "\n", "V", "i", "d", "e", "o", " ", "C", "o", "n", "t", "e", "x", "t", ":", " ">>

\* the reply of answer_followup
ChatReplies == {<<"E", "r", "r", "o", "r", ":", " ", "C", "o", "u", "l", "d", " ", "n", "o", "t", " ", "g", "e", "n", "e", "r", "a", "t", "e", " ", "a", "n", "s", "w", "e", "r", ".">>}

Message(role, text) == [role |-> role, text |-> text]

\* should_run_pipeline
ShouldRunPipeline(s, chat_file) ==
    ~ (TruthyStr(s.summary) /\ chat_file.type = "none")

\* new_query
NewQuery(user_text, chat_file) ==
    CASE chat_file.type = "image" -> user_text \o ImageContext \o Format(chat_file.desc)
      [] chat_file.type = "video" -> user_text \o VideoContext \o Format(chat_file.desc)
      [] OTHER -> user_text

\* process_chat_message(user_text, chat_file), where r is what run_full_pipeline
\* returns and reply what answer_followup returns; the session id exists
\* since the initialisation of the script run
process_chat_message(s, user_text, chat_file, r, reply) ==
    LET msg_text == IF chat_file.type = "none" THEN user_text
                    ELSE user_text \o Attached(chat_file.name)
        s1 == [s EXCEPT !.floating_chat =
                            Some((IF @ = Null THEN <<>> ELSE @[1])
                                 \o <<Message("user", msg_text)>>),
                        !.query = Some(NewQuery(user_text, chat_file))]
        s2 == IF ShouldRunPipeline(s, chat_file)
              THEN StoreResult([s1 EXCEPT !.context = s.summary], r)
              ELSE s1
    IN  [s2 EXCEPT !.floating_chat = Some(@[1] \o <<Message("bot", reply)>>)]

\* the script run that st.rerun() starts, in which no widget fires: the
\* initialisation, then the pipeline block when a query is stored
ScriptRun(s, id, r) ==
    LET s1 == SessionInit(s, id)
    IN  IF TruthyStr(s1.query) THEN StoreResult(s1, r) ELSE s1

\* the submit block of the search form
Submitted(s, inp) ==
    [EmptySession EXCEPT
        !.floating_chat = IF s.floating_chat = Null THEN Some(<<>>) ELSE s.floating_chat,
        !.followup_answers =
            IF s.followup_answers = Null THEN Some(<<>>) ELSE s.followup_answers,
        !.has_searched = Some(TRUE),
        !.query = QueryOfForm(inp)]

\* the "New Search" button
NewSearchClicked_ClearsResults(s) ==
    [s EXCEPT !.has_searched = Some(FALSE), !.query = Null, !.summary = Null,
              !.articles = Some(<<>>), !.floating_chat = Some(<<>>),
              !.followups = Some(<<>>), !.perspectives = Some(<<>>),
              !.error = Null]

NewSearchClicked(s) ==
    [s EXCEPT !.has_searched = Some(FALSE), !.query = Null, !.summary = Null,
              !.articles = Some(<<>>), !.floating_chat = Some(<<>>)]

\* the user messages of the chat history
ChatTurns(s) ==
    Cardinality({i \in 1..Len(s.floating_chat[1]) : s.floating_chat[1][i].role = "user"})

\* the event handled last: its kind, the attachment, whether a summary was
\* stored when it arrived, and the last call of run_full_pipeline it made
Event(kind, chat_file, had_summary, ran) ==
    [kind |-> kind, file |-> chat_file, had_summary |-> had_summary, ran |-> ran]

\* the call of run_full_pipeline made by the pipeline block of a script run
RanOf(s, r) ==
    IF TruthyStr(s.query)
    THEN Some([query |-> s.query[1], context |-> s.context, result |-> r])
    ELSE Null

\* the state after the first script run of a session
InitApp ==
    /\ pc = "app"
    /\ articles = <<>>
    /\ error = Null
    /\ idx = 1
    /\ processed_articles = <<>>
    /\ perspectives = <<>>
    /\ processed_sources = {}
    /\ calls = <<>>
    /\ persp_input = Null
    /\ result = Null
    /\ rankIn = <<>>
    /\ rankOut = Null
    /\ apiIn = Null
    /\ apiOut = Null
    /\ \E id \in SessionIds : session = SessionInit(EmptySession, id)
    /\ lastEvent = Event("load", NoFile, FALSE, Null)

\* the search form is submitted: the submit block, then the rerun
SubmitSearch ==
    /\ pc = "app"
    /\ session.has_searched # Some(TRUE)
    /\ \E inp \in FormInputs, id \in SessionIds, r \in PipelineResults :
         LET s1 == Submitted(session, inp)
         IN  /\ session' = ScriptRun(s1, id, r)
             /\ lastEvent' = Event("submit", NoFile, TruthyStr(session.summary),
                                   RanOf(s1, r))
    /\ UNCHANGED <<pipelineVars, rankIn, rankOut, apiIn, apiOut>>

\* the "New Search" button is clicked: its assignments, then the rerun
NewSearch ==
    /\ pc = "app"
    /\ session.has_searched = Some(TRUE)
    /\ \E id \in SessionIds, r \in PipelineResults :
         LET s1 == NewSearchClicked(session)
         IN  /\ session' = ScriptRun(s1, id, r)
             /\ lastEvent' = Event("new_search", NoFile, TruthyStr(session.summary),
                                   RanOf(s1, r))
    /\ UNCHANGED <<pipelineVars, rankIn, rankOut, apiIn, apiOut>>

\* a chat message is sent: process_chat_message, then the rerun, whose call
\* of the cached run_full_pipeline returns the stored value when the handler
\* has made the same call
ChatMessage ==
    /\ pc = "app"
    /\ session.has_searched = Some(TRUE)
    /\ ChatTurns(session) < MaxChatTurns
    /\ \E user_text \in ChatTexts, chat_file \in ChatFiles, reply \in ChatReplies,
          id \in SessionIds, r \in PipelineResults :
         \E again \in IF ShouldRunPipeline(session, chat_file) THEN {r}
                      ELSE PipelineResults :
           LET s1 == process_chat_message(session, user_text, chat_file, r, reply)
           IN  /\ session' = ScriptRun(s1, id, again)
               /\ lastEvent' = Event("chat", chat_file, TruthyStr(session.summary),
                                     RanOf(s1, again))
    /\ UNCHANGED <<pipelineVars, rankIn, rankOut, apiIn, apiOut>>

\* one of the first five follow-up buttons is clicked
FollowupClick ==
    /\ pc = "app"
    /\ session.followups # Null
    /\ session.followups[1] # <<>>
    /\ ChatTurns(session) < MaxChatTurns
    /\ \E i \in 1..Min(5, Len(session.followups[1])), reply \in ChatReplies,
          id \in SessionIds, r \in PipelineResults :
         \E again \in IF ShouldRunPipeline(session, NoFile) THEN {r}
                      ELSE PipelineResults :
           LET s1 == process_chat_message(session, session.followups[1][i],
                                          NoFile, r, reply)
           IN  /\ session' = ScriptRun(s1, id, again)
               /\ lastEvent' = Event("followup", NoFile, TruthyStr(session.summary),
                                     RanOf(s1, again))
    /\ UNCHANGED <<pipelineVars, rankIn, rankOut, apiIn, apiOut>>

NextApp ==
    \/ SubmitSearch
    \/ NewSearch
    \/ ChatMessage
    \/ FollowupClick

SpecApp == InitApp /\ [][NextApp]_vars

(* ------------------------------ properties ---------------------------- *)

Range(f) == {f[i] : i \in DOMAIN f}

\* source and candidate of every outcome produced so far
Outcomes ==
    {[source |-> a.source, url |-> a.url] : a \in Range(processed_articles)}
    \cup {[source |-> a.source, url |-> a.url] : a \in Range(perspectives)}

\* the candidates whose extraction and summarization both succeeded
Succeeded ==
    {j \in 1..Len(articles) : Call("summarize_text", j, TRUE) \in Range(calls)}

\* the candidates rejected for extraction or summarization failure
Rejected ==
    {j \in 1..Len(articles) :
        \/ Call("extract_article", j, FALSE) \in Range(calls)
        \/ Call("summarize_text", j, FALSE) \in Range(calls)}

CallsOf(fn) == {k \in 1..Len(calls) : calls[k].fn = fn}

RECURSIVE Ascending(_)
\* the elements of a finite set of numbers, smallest first
Ascending(S) ==
    IF S = {} THEN <<>>
    ELSE LET m == CHOOSE x \in S : \A y \in S : x <= y
         IN  <<m>> \o Ascending(S \ {m})

\* the candidate loop is over (the run may have returned)
AfterLoop == (pc = "loop" /\ idx > Len(articles)) \/ (pc = "done" /\ articles # <<>>)

Returned == pc = "done" /\ result # Null

\* C1 as stated: at most one outcome per source name, and the outcome of a
\* name comes from the earliest-arriving candidate with that name.
C1_DedupEarliestArriving ==
    \A o \in Outcomes :
        /\ \A q \in Outcomes : q.source = o.source => q.url = o.url
        /\ \A j \in 1..(o.url - 1) : SourceOf(articles[j]) # o.source

\* C1, amended: at most one outcome per source name, and the outcome of a
\* name comes from the earliest-arriving candidate with that name whose
\* extraction and summarization succeeded.
C1_DedupEarliestSucceeded ==
    \A o \in Outcomes :
        /\ \A q \in Outcomes : q.source = o.source => q.url = o.url
        /\ SourceOf(articles[o.url]) = o.source
        /\ o.url \in Succeeded
        /\ \A j \in 1..(o.url - 1) :
              SourceOf(articles[j]) = o.source => j \notin Succeeded

\* two candidates share a source name, the first produced the outcome and
\* the second has been passed over
C1_Witness ==
    /\ pc = "loop"
    /\ \E i, j \in 1..Len(articles) :
         /\ i < j /\ j < idx
         /\ SourceOf(articles[i]) = SourceOf(articles[j])
         /\ \E o \in Outcomes : o.url = i

\* C2: after the candidate loop the headline set holds the first min(4, S)
\* candidates that were extracted and summarized successfully, in arrival
\* order, and the perspective pool holds all the later ones.
C2_HeadlineCutoff ==
    AfterLoop =>
        LET order == Ascending(Succeeded)
            n == Min(4, Len(order))
        IN  /\ Len(processed_articles) = n
            /\ \A i \in 1..n : processed_articles[i].url = order[i]
            /\ Len(perspectives) = Len(order) - n
            /\ \A i \in 1..Len(perspectives) : perspectives[i].url = order[n + i]

\* four headline articles, with a rejected candidate arriving before the
\* fourth of them
C2_Witness ==
    /\ AfterLoop
    /\ Len(processed_articles) = 4
    /\ \E j \in Rejected : j < processed_articles[4].url

IsSuccess(r) ==
    /\ r.error = Null
    /\ r.ranked_articles # Null
    /\ r.ranked_articles[1] # <<>>

IsFailure(r) ==
    /\ r.error # Null
    /\ r.error[1] # ""
    /\ r.ranked_articles = Null
    /\ r.combined_summary = Null
    /\ r.followups = <<>>
    /\ r.perspectives = <<>>

\* C3: a returned value is either a success (no error, non-empty ranked
\* articles) or a failure (non-empty error, nothing else), never both.
C3_ResultShape ==
    result # Null =>
        /\ IsSuccess(result[1]) \/ IsFailure(result[1])
        /\ ~(IsSuccess(result[1]) /\ IsFailure(result[1]))
        /\ result[1].error # Null =>
              /\ result[1].ranked_articles = Null
              /\ result[1].combined_summary = Null
              /\ result[1].followups = <<>>
              /\ result[1].perspectives = <<>>

\* a success whose summary, perspectives and follow-ups are all empty
C3_Witness ==
    /\ Returned
    /\ IsSuccess(result[1])
    /\ result[1].combined_summary = Null
    /\ result[1].perspectives = <<>>
    /\ result[1].followups = <<>>

\* C4: when the search returns an error message, the run returns that
\* message as its error, with no partial result and without any call.
C4_SearchErrorPropagates ==
    (pc # "start" /\ TruthyMsg(error)) =>
        /\ Returned
        /\ result[1] = Failure(error[1])
        /\ calls = <<>>
        /\ processed_articles = <<>> /\ perspectives = <<>>

C4_Witness == Returned /\ error = Some("Invalid API key.")

\* C5 as stated: with zero candidates the error is "No articles found.".
C5_ZeroCandidatesMessage ==
    (Returned /\ articles = <<>>) => result[1].error = Some(NoArticlesFound)

\* C5, amended: with zero candidates the error is the message of the search
\* when it gave a non-empty one, and "No articles found." otherwise.
C5_ZeroCandidatesError ==
    (Returned /\ articles = <<>>) =>
        result[1] = Failure(IF TruthyMsg(error) THEN error[1] ELSE NoArticlesFound)

\* zero candidates and no message from the search
C5_Witness ==
    /\ Returned
    /\ articles = <<>>
    /\ ~TruthyMsg(error)
    /\ result[1].error = Some(NoArticlesFound)

\* C6: when there are candidates and every one is rejected, the error is
\* "Could not process any of the fetched articles.", which is not the
\* message of the zero-candidates case, and nothing is ranked, synthesized,
\* extracted or asked.
C6_NoSurvivors ==
    (Returned /\ articles # <<>> /\ Rejected = 1..Len(articles)) =>
        /\ result[1] = Failure("Could not process any of the fetched articles.")
        /\ result[1].error # Some(NoArticlesFound)
        /\ \A k \in 1..Len(calls) :
              calls[k].fn \in {"extract_article", "summarize_text"}

\* several candidates, rejected for both reasons
C6_Witness ==
    /\ Returned
    /\ Len(articles) >= 2
    /\ Rejected = 1..Len(articles)
    /\ \E k \in CallsOf("extract_article") : ~calls[k].ok
    /\ \E k \in CallsOf("summarize_text") : ~calls[k].ok

\* C7: when the search gives candidates and one of them is extracted and
\* summarized, the run returns no error and a non-empty ranked list,
\* whatever the credibility, synthesis, perspective and follow-up replies.
C7_DegradesGracefully ==
    (Returned /\ articles # <<>> /\ Succeeded # {}) =>
        /\ result[1].error = Null
        /\ result[1].ranked_articles # Null
        /\ result[1].ranked_articles[1] # <<>>

\* one survivor without credibility, no synthesis, no perspectives
C7_Witness ==
    /\ Returned
    /\ Succeeded # {}
    /\ Rejected # {}
    /\ \A a \in Range(processed_articles) : a.credibility = StrCred(NotAvailable)
    /\ result[1].error = Null
    /\ result[1].combined_summary = Null
    /\ result[1].perspectives = <<>>

RankedOut == rankOut[1]

C9_RankOrdered ==
    rankOut # Null =>
        /\ \A i \in 1..Len(RankedOut) : RankedOut[i].priority_rank = i
        /\ \A i \in 1..(Len(RankedOut) - 1) :
              FGe(RankedOut[i].credibility_numeric,
                  RankedOut[i + 1].credibility_numeric)

\* the entries that rank_articles_by_credibility must leave alone
Kept(a) ==
    [source |-> a.source, url |-> a.url, title |-> a.title, summary |-> a.summary,
     credibility |-> a.credibility, thumbnail |-> a.thumbnail]

\* C10: the output of rank_articles_by_credibility holds every input article
\* exactly once and nothing else, with source, url, title, summary,
\* credibility label and thumbnail unchanged.
C10_RankPermutation ==
    rankOut # Null =>
        /\ Len(RankedOut) = Len(rankIn)
        /\ \A u \in 1..Len(rankIn) :
              Cardinality({i \in 1..Len(RankedOut) : RankedOut[i].url = u}) = 1
        /\ \A i \in 1..Len(RankedOut) :
              /\ RankedOut[i].url \in 1..Len(rankIn)
              /\ Kept(RankedOut[i]) = Kept(rankIn[RankedOut[i].url])

\* a list with a label that needs cleaning, reordered by the ranking
C10_Witness ==
    /\ rankOut # Null
    /\ Len(RankedOut) >= 3
    /\ RankedOut[1].url # 1
    /\ \E i \in 1..Len(RankedOut) :
          RankedOut[i].credibility = StrCred(<<"7", "3", "%">>)

\* the tier of the specification that a priority label stands for
TierOf(priority_label) ==
    CASE priority_label = "High Priority" -> "High"
      [] priority_label = "Medium Priority" -> "Medium"
      [] priority_label = "Low Priority" -> "Low"
      [] priority_label = "Very Low Priority" -> "Very-Low"

\* the tier that the thresholds 80, 60 and 40 (inclusive lower bounds) give a
\* score that is a number; scores are in tenths
TierByThreshold(score) ==
    IF score = Inf(1) \/ (score.k = "fin" /\ score.v >= 800) THEN "High"
    ELSE IF score.k = "fin" /\ score.v >= 600 THEN "Medium"
    ELSE IF score.k = "fin" /\ score.v >= 400 THEN "Low"
    ELSE "Very-Low"

\* the tiers the specification lists for the scores at the edges
BoundaryTable ==
    {<<Fin(0), "Very-Low">>, <<Fin(399), "Very-Low">>, <<Fin(400), "Low">>,
     <<Fin(599), "Low">>, <<Fin(600), "Medium">>, <<Fin(799), "Medium">>,
     <<Fin(800), "High">>, <<Fin(1000), "High">>}

\* C11: the tier of a ranked article is a function of its numeric score with
\* inclusive lower bounds (>= 80 High, >= 60 Medium, >= 40 Low, else
\* Very-Low), and the scores 0, 39.9, 40, 59.9, 60, 79.9, 80, 100 get the
\* tiers Very-Low, Very-Low, Low, Low, Medium, Medium, High, High.
C11_TierBoundaries ==
    rankOut # Null =>
        \A i \in 1..Len(RankedOut) :
            LET a == RankedOut[i]
            IN  /\ a.credibility_numeric.k # "nan" =>
                      TierOf(a.priority_label) = TierByThreshold(a.credibility_numeric)
                /\ \A b \in BoundaryTable :
                      a.credibility_numeric = b[1] => TierOf(a.priority_label) = b[2]

\* a ranked list with the scores 39.9, 40 and 80 and their three tiers
C11_Witness ==
    /\ rankOut # Null
    /\ \E i, j, k \in 1..Len(RankedOut) :
          /\ RankedOut[i].credibility_numeric = Fin(399)
          /\ RankedOut[i].priority_label = "Very Low Priority"
          /\ RankedOut[j].credibility_numeric = Fin(400)
          /\ RankedOut[j].priority_label = "Low Priority"
          /\ RankedOut[k].credibility_numeric = Fin(800)
          /\ RankedOut[k].priority_label = "High Priority"

\* the label of a ranked article without '%' and surrounding whitespace
CleanLabel(a) == Strip(RemoveChar(a.credibility.s, "%"))

\* C12: a str label has '%' and surrounding whitespace removed and is parsed
\* as a number, a label that does not parse gives 0.0, and a label that is a
\* number already is used as it is; "73%" gives 73.0, "abc" and "N/A" give
\* 0.0.
C12_NumericCoercion ==
    rankOut # Null =>
        \A i \in 1..Len(RankedOut) :
            LET a == RankedOut[i]
                score == a.credibility_numeric
            IN  /\ score.k \in {"fin", "nan", "inf"}
                /\ a.credibility.t = "num" => score = Fin(a.credibility.n)
                /\ a.credibility.t = "str" =>
                      /\ (CleanLabel(a) # <<>> /\ AllDigits(CleanLabel(a)))
                            => score = Fin(10 * DigitsValue(CleanLabel(a)))
                      /\ ~ParseFloat(CleanLabel(a)).ok => score = Fin(0)
                /\ a.credibility = StrCred(<<"7", "3", "%">>) => score = Fin(730)
                /\ a.credibility = StrCred(<<" ", "4", "0", " ">>) => score = Fin(400)
                /\ a.credibility = StrCred(<<"3", "9", ".", "9">>) => score = Fin(399)
                /\ a.credibility = StrCred(<<"a", "b", "c">>) => score = Fin(0)
                /\ a.credibility = StrCred(NotAvailable) => score = Fin(0)

\* a ranked list with "73%", a label that does not parse and a number
C12_Witness ==
    /\ rankOut # Null
    /\ \E i, j, k \in 1..Len(RankedOut) :
          /\ RankedOut[i].credibility = StrCred(<<"7", "3", "%">>)
          /\ RankedOut[i].credibility_numeric = Fin(730)
          /\ RankedOut[j].credibility = StrCred(<<"a", "b", "c">>)
          /\ RankedOut[j].credibility_numeric = Fin(0)
          /\ RankedOut[k].credibility = NumCred(600)
          /\ RankedOut[k].credibility_numeric = Fin(600)

\* the ranked articles of a returned success
Ranked == result[1].ranked_articles[1]

ReturnedSuccess == Returned /\ result[1].error = Null

\* C13 as stated: every ranked article of a run has credibility_numeric in
\* [0, 100], and 0.0 with tier Very-Low when rate_credibility returned "N/A".
C13_ScoreInRange ==
    ReturnedSuccess =>
        \A i \in 1..Len(Ranked) :
            LET a == Ranked[i]
            IN  /\ a.credibility_numeric.k = "fin"
                /\ a.credibility_numeric.v >= 0
                /\ a.credibility_numeric.v <= 1000
                /\ a.credibility = StrCred(NotAvailable) =>
                      /\ a.credibility_numeric = Fin(0)
                      /\ a.priority_label = "Very Low Priority"

\* C14: when summarize_all_articles returns nothing for a non-empty headline
\* set, the run returns no error, no combined summary, the ranked articles
\* and no follow-up, and perspective extraction is still called.
C14_SynthesisFailureNotFatal ==
    (Returned /\ Call("summarize_all_articles", 0, FALSE) \in Range(calls)) =>
        /\ result[1].error = Null
        /\ result[1].combined_summary = Null
        /\ result[1].ranked_articles # Null
        /\ Len(Ranked) = Len(processed_articles)
        /\ Len(Ranked) >= 1
        /\ result[1].followups = <<>>
        /\ CallsOf("extract_perspectives_from_articles") # {}
        /\ persp_input # Null

\* synthesis failed although the follow-up model would answer, and the
\* perspectives were extracted
C14_Witness ==
    /\ Returned
    /\ Call("summarize_all_articles", 0, FALSE) \in Range(calls)
    /\ result[1].error = Null
    /\ result[1].perspectives # <<>>
    /\ Len(Ranked) >= 2

\* C15: in a successful run the input of perspective extraction is the
\* ranked headline set followed by the perspective pool: every headline
\* article and every pool item once and nothing else, headline articles in
\* ranked order first, pool items in arrival order after them.
C15_PerspectiveInput ==
    ReturnedSuccess =>
        LET input == persp_input[1]
            h == Len(Ranked)
        IN  /\ persp_input # Null
            /\ Len(input) = h + Len(perspectives)
            /\ \A i \in 1..h : input[i] = Ranked[i]
            /\ \A i \in 1..Len(perspectives) : input[h + i] = perspectives[i]
            /\ \A i \in 1..(Len(perspectives) - 1) :
                  perspectives[i].url < perspectives[i + 1].url
            /\ \A j \in Succeeded :
                  Cardinality({i \in 1..Len(input) : input[i].url = j}) = 1
            /\ \A i \in 1..Len(input) : input[i].url \in Succeeded

\* four headline articles reordered by the ranking, and a pool item
C15_Witness ==
    /\ ReturnedSuccess
    /\ Len(Ranked) = 4
    /\ Ranked[1].url # processed_articles[1].url
    /\ Len(perspectives) = 1
    /\ persp_input[1][5] = perspectives[1]

\* six candidates from six sources, all extracted and summarized, whose
\* headline scores are 90, 55, 55, 10 in arrival order
SixSourcesScenario ==
    /\ ReturnedSuccess
    /\ Len(articles) = 6
    /\ Cardinality({SourceOf(articles[i]) : i \in 1..6}) = 6
    /\ Succeeded = 1..6
    /\ Len(processed_articles) = 4
    /\ [i \in 1..4 |-> processed_articles[i].credibility_numeric]
          = <<Fin(900), Fin(550), Fin(550), Fin(100)>>

\* C18: in that scenario the headline set is the first four candidates and
\* the pool the last two; the ranked order is 90, first 55, second 55, 10
\* with tiers High, Low, Low, Very-Low and ranks 1 to 4; at most 5 follow-ups
\* are returned and the error is null.
C18_EndToEnd ==
    SixSourcesScenario =>
        /\ [i \in 1..4 |-> processed_articles[i].url] = <<1, 2, 3, 4>>
        /\ [i \in 1..Len(perspectives) |-> perspectives[i].url] = <<5, 6>>
        /\ [i \in 1..Len(Ranked) |-> Ranked[i].url] = <<1, 2, 3, 4>>
        /\ [i \in 1..Len(Ranked) |-> Ranked[i].credibility_numeric]
              = <<Fin(900), Fin(550), Fin(550), Fin(100)>>
        /\ [i \in 1..Len(Ranked) |-> TierOf(Ranked[i].priority_label)]
              = <<"High", "Low", "Low", "Very-Low">>
        /\ [i \in 1..Len(Ranked) |-> Ranked[i].priority_rank] = <<1, 2, 3, 4>>
        /\ Len(result[1].followups) <= 5
        /\ result[1].error = Null

\* the scenario, with more than five distinct questions in the reply
C18_Witness ==
    /\ SixSourcesScenario
    /\ Len(result[1].followups) = 5

\* C20: extract_article returns either a non-empty text or nothing, nothing
\* when the download fails, the page has no main text or the library
\* raises; a candidate for which it returns nothing gets no other call and
\* no outcome, and the run goes on with the next candidate.
C20_ExtractionFailureSkips ==
    /\ \A o \in ExtractOutcomes :
          /\ extract_article(o) = Null \/ TruthyStr(extract_article(o))
          /\ (o.kind # "page" \/ o.text = Null \/ o.text = Some(<<>>))
                => extract_article(o) = Null
    /\ \A k \in 1..Len(calls) :
          (calls[k].fn = "extract_article" /\ ~calls[k].ok) =>
              /\ calls[k].cand < idx
              /\ \A n \in 1..Len(calls) : n # k => calls[n].cand # calls[k].cand
              /\ \A o \in Outcomes : o.url # calls[k].cand
              /\ k < Len(calls) => calls[k + 1].cand \in {0} \cup (calls[k].cand + 1)..Len(articles)
              /\ pc = "done" => idx > Len(articles)

\* a candidate whose extraction failed, followed by one that was processed
C20_Witness ==
    /\ pc = "loop"
    /\ \E k \in 1..(Len(calls) - 1) :
          /\ calls[k] = Call("extract_article", calls[k].cand, FALSE)
          /\ calls[k + 1] = Call("extract_article", calls[k].cand + 1, TRUE)
          /\ \E o \in Outcomes : o.url = calls[k].cand + 1

\* a call of generate_followup_questions has returned
FollowupReturned ==
    pc = "api" /\ apiOut # Null /\ apiIn.fn = "generate_followup_questions"

\* the lines of the reply given to generate_followup_questions
LinesOfReply ==
    IF apiIn.reply.kind = "content" THEN Split(apiIn.reply.text, "\n") ELSE <<>>

\* the positions of the lines of the reply that carry the question q
LinesWith(q) ==
    {k \in 1..Len(LinesOfReply) : QuestionOf(LinesOfReply[k]) = Some(q)}

\* the first of a non-empty set of positions
First(S) == CHOOSE k \in S : \A n \in S : k <= n

\* C16: generate_followup_questions returns at most n_questions questions,
\* no two of them equal, each a question of the reply, in the order of
\* their first occurrence in the reply.
C16_FollowupsBoundedUnique ==
    FollowupReturned =>
        LET out == apiOut[1]
        IN  /\ Len(out) <= apiIn.n_questions
            /\ \A i, j \in 1..Len(out) : i # j => out[i] # out[j]
            /\ \A i \in 1..Len(out) : LinesWith(out[i]) # {}
            /\ \A i, j \in 1..Len(out) :
                  i < j => First(LinesWith(out[i])) < First(LinesWith(out[j]))

\* the default of five questions out of a reply that repeats a question and
\* has six distinct ones
C16_Witness ==
    /\ FollowupReturned
    /\ apiIn.n_questions = NQuestions
    /\ Len(apiOut[1]) = NQuestions
    /\ \E k, n \in 1..Len(LinesOfReply) :
          /\ k < n
          /\ QuestionOf(LinesOfReply[k]) # Null
          /\ QuestionOf(LinesOfReply[k]) = QuestionOf(LinesOfReply[n])
    /\ \E k \in 1..Len(LinesOfReply) :
          /\ QuestionOf(LinesOfReply[k]) # Null
          /\ \A i \in 1..Len(apiOut[1]) : QuestionOf(LinesOfReply[k]) # Some(apiOut[1][i])

\* a call with a summary, the default n_questions and the three given lines
FollowupCase(l1, l2, l3) ==
    /\ FollowupReturned
    /\ TruthyStr(apiIn.combined_summary)
    /\ apiIn.n_questions = NQuestions
    /\ apiIn.reply = Content(JoinLines(<<l1, l2, l3>>))

\* C17 as stated: the reply lines "Why?", "Why?", "How?" give exactly
\* ["Why?", "How?"].
C17_ShortQuestionsKept ==
    FollowupCase(WhyShort, WhyShort, HowShort) => apiOut[1] = <<WhyShort, HowShort>>

\* C17, amended: the reply lines "Why is it so?", "Why is it so?",
\* "How is it so?" give exactly ["Why is it so?", "How is it so?"], and the
\* reply lines "Why?", "Why?", "How?" give no question at all.
C17_LongQuestionsDeduplicated ==
    /\ FollowupCase(WhyLong, WhyLong, HowLong) => apiOut[1] = <<WhyLong, HowLong>>
    /\ FollowupCase(WhyShort, WhyShort, HowShort) => apiOut[1] = <<>>

\* the call with the two long questions, the first of them twice
C17_Witness ==
    /\ FollowupCase(WhyLong, WhyLong, HowLong)
    /\ Len(apiOut[1]) = 2

\* a call of fetch_top_news has returned
FetchReturned == pc = "api" /\ apiOut # Null /\ apiIn.fn = "fetch_top_news"

\* a search attempt that yielded no item (or raised)
NoItems(o) == o.kind # "results" \/ o.items = <<>>

\* C19: fetch_top_news makes one search, or two when the first yielded no
\* item, and never more; a non-empty error is returned only when both
\* yielded no item, and items are returned only with a null error.
C19_AtMostTwoAttempts ==
    FetchReturned =>
        LET r == apiOut[1]
        IN  /\ r.attempts \in {1, 2}
            /\ r.attempts = 2 <=> NoItems(apiIn.o1)
            /\ r.attempts = 1 => r.items = apiIn.o1.items
            /\ (r.attempts = 2 /\ ~NoItems(apiIn.o2)) => r.items = apiIn.o2.items
            /\ TruthyMsg(r.error) =>
                  (NoItems(apiIn.o1) /\ NoItems(apiIn.o2) /\ r.items = <<>>)
            /\ r.items # <<>> => r.error = Null

\* the first search raised and the second returned candidates
C19_Witness ==
    /\ FetchReturned
    /\ apiIn.o1.kind = "raised"
    /\ apiOut[1].attempts = 2
    /\ apiOut[1].items # <<>>
    /\ apiOut[1].error = Null

\* a call of extract_perspectives_from_articles has returned
PerspectivesReturned ==
    pc = "api" /\ apiOut # Null /\ apiIn.fn = "extract_perspectives_from_articles"

\* the reply is a JSON list of objects
WellFormed(reply) ==
    reply.json = "list" /\ \A i \in 1..Len(reply.elems) : reply.elems[i].isobj

\* the non-empty urls of the input articles, in input order
InputUrls ==
    SelectSeq([i \in 1..Len(apiIn.articles) |-> apiIn.articles[i].url],
              LAMBDA u : u # 0)

\* C21 as stated: when a reply is obtained for a non-empty list of articles
\* and its content is not a JSON list of objects, the function returns
\* exactly one perspective, whose articles are the non-empty urls of the
\* input in input order.
C21_MalformedReplyFallsBack ==
    (/\ PerspectivesReturned
     /\ apiIn.articles # <<>>
     /\ apiIn.reply.kind = "content"
     /\ ~WellFormed(apiIn.reply)) =>
        /\ Len(apiOut[1]) = 1
        /\ apiOut[1][1].articles = InputUrls

\* the candidates for which the function fn was called
CandidatesOf(fn) == {calls[k].cand : k \in CallsOf(fn)}

\* the candidates that produced an outcome
OutcomeUrls == {o.url : o \in Outcomes}

\* C23: a candidate whose extraction returns nothing gets no summarization
\* and no credibility call, one whose summarization returns nothing gets no
\* credibility call, and neither has an outcome in the headline set or in
\* the perspective pool, which hold the other candidates only.
C23_RejectedLeaveNothing ==
    \E made \in {Range(calls)}, outcomes \in {OutcomeUrls}, succeeded \in {Succeeded},
       rated \in {CandidatesOf("rate_credibility")}, slept \in {CandidatesOf("sleep")},
       summarized \in {CandidatesOf("summarize_text")} :
        /\ \A j \in Rejected :
              /\ j \notin outcomes
              /\ j \notin rated
              /\ j \notin slept
              /\ Call("extract_article", j, FALSE) \in made => j \notin summarized
              /\ Call("summarize_text", j, FALSE) \in made
                    => Call("extract_article", j, TRUE) \in made
        /\ Len(processed_articles) + Len(perspectives) = Cardinality(succeeded)
        /\ outcomes = succeeded

\* a candidate rejected at each of the two steps, between two outcomes
C23_Witness ==
    /\ pc = "loop"
    /\ \E i, j, k, n \in 1..Len(articles) :
          /\ i < j /\ j < k /\ k < n
          /\ i \in OutcomeUrls
          /\ Call("extract_article", j, FALSE) \in Range(calls)
          /\ Call("summarize_text", k, FALSE) \in Range(calls)
          /\ n \in OutcomeUrls

\* C24: the rate_credibility calls are one for each headline article and no
\* other: their number is the size of the headline set, at most 4, and no
\* call is made for a pool item, a rejected candidate or a skipped one.
C24_CredibilityOnlyForHeadlines ==
    /\ Cardinality(CallsOf("rate_credibility")) = Len(processed_articles)
    /\ Len(processed_articles) <= 4
    /\ CandidatesOf("rate_credibility") = {a.url : a \in Range(processed_articles)}
    /\ \A a \in Range(perspectives) : a.url \notin CandidatesOf("rate_credibility")
    /\ \A j \in 1..Len(articles) :
          j \in CandidatesOf("rate_credibility") => j \in CandidatesOf("extract_article")

\* four rated headline articles, a pool item, and a candidate that was
\* rejected or skipped
C24_Witness ==
    /\ AfterLoop
    /\ Cardinality(CallsOf("rate_credibility")) = 4
    /\ perspectives # <<>>
    /\ \/ Rejected # {}
       \/ \E j \in 1..Len(articles) : j \notin CandidatesOf("extract_article")

\* C25: there is one pacing delay for each candidate that produced an
\* outcome and no other; the delay is the last step for that candidate,
\* after its outcome is recorded, and what follows is for a later candidate.
C25_PacingAfterEachOutcome ==
    /\ Cardinality(CallsOf("sleep")) = Cardinality(OutcomeUrls)
    /\ CandidatesOf("sleep") = OutcomeUrls
    /\ \A k \in CallsOf("sleep") :
          /\ k > 1
          /\ calls[k - 1].cand = calls[k].cand
          /\ calls[k - 1].fn \in {"summarize_text", "rate_credibility"}
          /\ calls[k].cand < idx
          /\ \A n \in (k + 1)..Len(calls) :
                calls[n].cand = 0 \/ calls[n].cand > calls[k].cand

\* two outcomes with a delay after each, a skipped candidate and a rejected
\* one
C25_Witness ==
    /\ AfterLoop
    /\ Cardinality(CallsOf("sleep")) = 2
    /\ Rejected # {}
    /\ \E j \in 1..Len(articles) : j \notin CandidatesOf("extract_article")

\* C28: the seen set holds the source names of the outcomes and no other, so
\* a rejected candidate does not put its source there, and a later candidate
\* with the same source name is processed, not skipped.
C28_SeenOnlyOnOutcome ==
    \E rejected \in {Rejected}, succeeded \in {Succeeded},
       extracted \in {CandidatesOf("extract_article")},
       src \in {[i \in 1..Len(articles) |-> SourceOf(articles[i])]} :
        /\ processed_sources = {o.source : o \in Outcomes}
        /\ \A j \in rejected :
              (\A i \in succeeded : src[i] # src[j]) => src[j] \notin processed_sources
        /\ \A j \in rejected : \A k \in (j + 1)..(idx - 1) :
              (/\ k <= Len(articles)
               /\ src[k] = src[j]
               /\ \A i \in 1..(k - 1) : src[i] = src[j] => i \notin succeeded)
                  => k \in extracted

\* a rejected candidate followed by one with the same source name that
\* produced the outcome of that source
C28_Witness ==
    /\ pc = "loop"
    /\ \E j \in Rejected : \E k \in OutcomeUrls :
          /\ j < k
          /\ SourceOf(articles[j]) = SourceOf(articles[k])
          /\ SourceOf(articles[k]) \in processed_sources

\* C29: the headline set never has more than 4 articles, the perspective
\* pool is non-empty only when the headline set has exactly 4, and every
\* pool item arrived after all the headline articles.
C29_PoolOnlyAfterFourHeadlines ==
    /\ Len(processed_articles) <= 4
    /\ perspectives # <<>> => Len(processed_articles) = 4
    /\ \A a \in Range(perspectives) : \A h \in Range(processed_articles) :
          h.url < a.url

\* in the loop, four headline articles and a pool item
C29_Witness ==
    /\ pc = "loop"
    /\ Len(processed_articles) = 4
    /\ Len(perspectives) >= 1

\* the application has handled an event whose last call of run_full_pipeline
\* returned an error
RunEndedInError ==
    pc = "app" /\ lastEvent.ran # Null /\ lastEvent.ran[1].result.error # Null

\* C26: after a pipeline run that ends in an error, the session state holds
\* articles None, summary None, empty followups, empty perspectives and the
\* message as error, whatever an earlier run had stored.
C26_ErrorReplacesResults ==
    RunEndedInError =>
        /\ session.articles = Null
        /\ session.summary = Null
        /\ session.followups = Some(<<>>)
        /\ session.perspectives = Some(<<>>)
        /\ session.error = lastEvent.ran[1].result.error

\* a run ended in an error while a summary of an earlier run was stored
C26_Witness ==
    RunEndedInError /\ lastEvent.had_summary /\ session.error = Some(CouldNotProcess)

\* the step handles a chat message, typed or chosen from the follow-up
\* buttons, that has no attachment and arrives when a summary is stored
ChatOnlyStep ==
    /\ pc = "app"
    /\ lastEvent'.kind \in {"chat", "followup"}
    /\ lastEvent'.file.type = "none"
    /\ TruthyStr(session.summary)

\* C27: a chat message without attachment that arrives when a summary is
\* stored makes no pipeline run and leaves the stored articles, summary,
\* perspectives and followups as they were.
C27_ChatOnly ==
    [][ChatOnlyStep =>
          /\ lastEvent'.ran = Null
          /\ session'.articles = session.articles
          /\ session'.summary = session.summary
          /\ session'.perspectives = session.perspectives
          /\ session'.followups = session.followups]_vars

\* C30: "New Search" sets has_searched to False, query and summary to None,
\* articles and the chat history to empty, and leaves perspectives,
\* followups, error, context, followup_answers and session_id as they were.
C30_NewSearchFrame ==
    [][pc = "app" /\ lastEvent'.kind = "new_search" =>
          /\ session'.has_searched = Some(FALSE)
          /\ session'.query = Null
          /\ session'.summary = Null
          /\ session'.articles = Some(<<>>)
          /\ session'.floating_chat = Some(<<>>)
          /\ session'.perspectives = session.perspectives
          /\ session'.followups = session.followups
          /\ session'.error = session.error
          /\ session'.context = session.context
          /\ session'.followup_answers = session.followup_answers
          /\ session'.session_id = session.session_id]_vars

\* "New Search" was clicked with perspectives, followups and a context stored
C30_Witness ==
    /\ pc = "app"
    /\ lastEvent.kind = "new_search"
    /\ session.articles = Some(<<>>)
    /\ session.perspectives # Null /\ session.perspectives[1] # <<>>
    /\ session.followups # Null /\ session.followups[1] # <<>>
    /\ session.context # Null

\* the structure of a returned run: the members of the headline set, the
\* perspective pool in order, the ranked order with ranks and tiers, and the
\* error
Structure ==
    [headlines |-> {a.url : a \in Range(processed_articles)},
     pool |-> [i \in 1..Len(perspectives) |-> perspectives[i].url],
     ranked |-> IF result[1].ranked_articles = Null THEN <<>>
                ELSE [i \in 1..Len(Ranked) |->
                         [url |-> Ranked[i].url,
                          rank |-> Ranked[i].priority_rank,
                          tier |-> TierOf(Ranked[i].priority_label)]],
     error |-> result[1].error]

\* the answers the ports gave in the run: the candidates whose extraction
\* and summarization gave a text, and the score of the label that
\* rate_credibility gave for a candidate
AnsweredText ==
    {calls[k].cand : k \in {n \in CallsOf("extract_article") : calls[n].ok}}
    \cap {calls[k].cand : k \in {n \in CallsOf("summarize_text") : calls[n].ok}}

AnsweredScore(j) ==
    LET S == {i \in 1..Len(processed_articles) : processed_articles[i].url = j}
    IN  IF S = {} THEN NaN
        ELSE get_credibility_score(processed_articles[CHOOSE i \in S : TRUE])

RECURSIVE Walk(_, _, _, _, _)
\* the headline candidates and the pool candidates that the answers
\* determine, from candidate j on
Walk(j, texts, seen, heads, pool) ==
    IF j > Len(articles) THEN [heads |-> heads, pool |-> pool]
    ELSE IF SourceOf(articles[j]) \in seen \/ j \notin texts
    THEN Walk(j + 1, texts, seen, heads, pool)
    ELSE IF Len(heads) < 4
    THEN Walk(j + 1, texts, seen \cup {SourceOf(articles[j])}, Append(heads, j), pool)
    ELSE Walk(j + 1, texts, seen \cup {SourceOf(articles[j])}, heads, Append(pool, j))

RECURSIVE ByScore(_, _)
\* candidates by descending score, equal scores in the given order: the
\* first candidate that no other one exceeds, then the rest likewise
ByScore(cands, score) ==
    IF cands = <<>> THEN <<>>
    ELSE LET Top(k) == \A m \in 1..Len(cands) : ~FLt(score[cands[k]], score[cands[m]])
             k == CHOOSE k \in 1..Len(cands) :
                     Top(k) /\ \A m \in 1..(k - 1) : ~Top(m)
         IN  <<cands[k]>> \o ByScore(SubSeq(cands, 1, k - 1)
                                      \o SubSeq(cands, k + 1, Len(cands)), score)

\* the tier of a score: thresholds 80, 60 and 40, scores in tenths
TierOfScore(score) ==
    IF FGe(score, Fin(800)) THEN "High"
    ELSE IF FGe(score, Fin(600)) THEN "Medium"
    ELSE IF FGe(score, Fin(400)) THEN "Low"
    ELSE "Very-Low"

\* the structure that the candidates and the answers determine: w is the
\* walk over the candidates, order the headline candidates by score
Determined(w, order, score) ==
    IF error # Null /\ error[1] # ""
    THEN [headlines |-> {}, pool |-> <<>>, ranked |-> <<>>, error |-> error]
    ELSE IF articles = <<>>
    THEN [headlines |-> {}, pool |-> <<>>, ranked |-> <<>>,
          error |-> Some(NoArticlesFound)]
    ELSE IF w.heads = <<>>
    THEN [headlines |-> {}, pool |-> w.pool, ranked |-> <<>>,
          error |-> Some(CouldNotProcess)]
    ELSE [headlines |-> Range(w.heads),
          pool |-> w.pool,
          ranked |-> [i \in 1..Len(order) |->
                        [url |-> order[i], rank |-> i,
                         tier |-> TierOfScore(score[order[i]])]],
          error |-> Null]

\* C22: the structure of a returned run (members of the headline set,
\* perspective pool, ranked order with ranks and tiers, error) is a function
\* of the candidates and of the answers of the ports, so that two runs with
\* the same answers have the same structure.
C22_StructureDetermined ==
    Returned =>
        \E w \in {Walk(1, AnsweredText, {}, <<>>, <<>>)},
           score \in {[j \in 1..Len(articles) |-> AnsweredScore(j)]} :
            \E order \in {ByScore(w.heads, score)} :
                Structure = Determined(w, order, score)

\* a returned run with a pool and two headline articles of equal score
C22_Witness ==
    /\ ReturnedSuccess
    /\ perspectives # <<>>
    /\ \E i, j \in 1..Len(Ranked) :
          i < j /\ FEq(Ranked[i].credibility_numeric, Ranked[j].credibility_numeric)

====
